---- MODULE Spec2Model ----
(***************************************************************************)
(* A model of libcxl (cxl/lib/libcxl.c): the mailbox command engine, the   *)
(* chunked label-storage transfer built on it, and the lazily discovered,  *)
(* cached port topology with its invalidation.                             *)
(*                                                                         *)
(* Ten specifications share the variables:                                 *)
(*   SpecCmd  - one struct cxl_cmd built, configured and submitted         *)
(*   SpecAcc  - one struct cxl_cmd built, submitted and read               *)
(*   SpecLsa  - cxl_memdev_{read,write,zero}_label, one loop turn a step   *)
(*   SpecTopo - discovery, endpoint resolution, enable/disable, invalidate *)
(*   SpecCtx  - discovery, cxl_ref and cxl_unref on the context           *)
(*   SpecMaps - cxl_dport_maps_memdev and cxl_target_maps_memdev           *)
(*   SpecDec  - add_cxl_decoder's target loop, target traversal and lookup *)
(*   SpecMemdev - add_cxl_memdev over readable and unreadable attributes   *)
(*   SpecWalk, SpecWalkFair - cxl_port_foreach_all over port trees         *)
(***************************************************************************)
EXTENDS Integers, Sequences, FiniteSets, TLC

(***************************************************************************)
(* errno values the library returns (negated).                             *)
(***************************************************************************)
ENXIO      == 6
ENOMEM     == 12
EBUSY      == 16
EINVAL     == 22
EOPNOTSUPP == 95

\* errno values open(2) and ioctl(2) are taken to fail with
TransportErrnos == {2, 5}

(***************************************************************************)
(* Bounds of the model.                                                    *)
(***************************************************************************)
\* largest payload size handed to cxl_cmd_set_{input,output}_payload beyond payload_max
MaxOver == 1
\* most references taken on one command
MaxRef == 2
\* most blocks allocated over the life of one command
MaxHeap == 7
\* most calls made on one command after it is built
MaxCalls == 2

\* bytes per unit of a capacity field
CXL_CAPACITY_MULTIPLIER == 268435456

Min(a, b) == IF a < b THEN a ELSE b
Max(a, b) == IF a > b THEN a ELSE b

(***************************************************************************)
(* The device as the command engine sees it.                               *)
(***************************************************************************)
\* command ids of enum CXL_MEM_COMMAND_ID_*
CmdIds == {"IDENTIFY", "RAW", "GET_PARTITION_INFO", "GET_LSA",
           "GET_HEALTH_INFO", "SET_PARTITION_INFO", "SET_LSA"}

\* size of a variable-sized payload in struct cxl_command_info
VARIABLE_PAYLOAD == -1

\* one struct cxl_command_info: the payload sizes follow the wire structures
\* of private.h (identify 0x43, get_lsa_in 8, health 0x12, get_partition 0x20,
\* set_partition 9)
CapInfo(id) ==
    CASE id = "IDENTIFY"           -> [id |-> id, size_in |-> 0, size_out |-> 67]
      [] id = "RAW"                -> [id |-> id, size_in |-> VARIABLE_PAYLOAD, size_out |-> VARIABLE_PAYLOAD]
      [] id = "GET_PARTITION_INFO" -> [id |-> id, size_in |-> 0, size_out |-> 32]
      [] id = "GET_LSA"            -> [id |-> id, size_in |-> 8, size_out |-> VARIABLE_PAYLOAD]
      [] id = "GET_HEALTH_INFO"    -> [id |-> id, size_in |-> 0, size_out |-> 18]
      [] id = "SET_PARTITION_INFO" -> [id |-> id, size_in |-> 9, size_out |-> 0]
      [] id = "SET_LSA"            -> [id |-> id, size_in |-> VARIABLE_PAYLOAD, size_out |-> 0]

\* capability tables a device may report: the full one, and ones lacking commands
CapTables ==
    { << >>,
      << CapInfo("IDENTIFY") >>,
      << CapInfo("IDENTIFY"), CapInfo("GET_LSA"), CapInfo("SET_LSA") >>,
      << CapInfo("IDENTIFY"), CapInfo("RAW"), CapInfo("GET_PARTITION_INFO"),
         CapInfo("GET_LSA"), CapInfo("GET_HEALTH_INFO") >>,
      << CapInfo("IDENTIFY"), CapInfo("RAW"), CapInfo("GET_PARTITION_INFO"),
         CapInfo("GET_LSA"), CapInfo("GET_HEALTH_INFO"),
         CapInfo("SET_PARTITION_INFO"), CapInfo("SET_LSA") >> }

\* payload_max values of the devices of SpecCmd
CmdPayloadMax == {16, 128}

(***************************************************************************)
(* struct cxl_cmd and the heap blocks it owns.  A pointer is a block id    *)
(* (an index of heap), 0 for NULL, USERBUF for a caller's buffer.  inbuf    *)
(* and outbuf are the contents of the memory send.in_payload and           *)
(* send.out_payload point to.                                              *)
(***************************************************************************)
USERBUF == -1

NoQuery == [n_commands |-> 0, commands |-> << >>]
NoSend  == [id |-> "NONE", in_payload |-> 0, in_size |-> 0,
            out_payload |-> 0, out_size |-> 0, retval |-> 0, opcode |-> 0]

\* no command: the slot of a command that was never built or was freed
NoCmd == [self |-> 0, refcount |-> 0, query_cmd |-> 0, query |-> NoQuery,
          send_cmd |-> 0, send |-> NoSend,
          input_payload |-> 0, output_payload |-> 0,
          query_status |-> "NOT_RUN", query_idx |-> 0, status |-> 0,
          inbuf |-> << >>, outbuf |-> << >>]

Ev(ev, k, n, rc) == [ev |-> ev, k |-> k, n |-> n, rc |-> rc]

\* the running state of one library call: the command, the heap, what was
\* issued so far, errno, the return value; label is the device's label
\* storage area, rx the send commands the device has received, ubuf the
\* caller's buffer
St(c, h) == [cmd |-> c, heap |-> h, log |-> << >>, errno |-> 0, rc |-> 0,
             label |-> << >>, rx |-> << >>, ubuf |-> << >>]

Ret(s, rc) == [s EXCEPT !.rc = rc]

Logged(s, e) == [s EXCEPT !.log = Append(@, e)]

\* calloc(1, size) succeeding: a new live block
Calloc(s, kind, size) ==
    Logged([s EXCEPT !.heap = Append(@, [kind |-> kind, live |-> TRUE, size |-> size])],
           Ev("alloc", kind, size, 0))

NewBlock(s) == Len(s.heap) + 1

\* free(p): free(NULL) does nothing
Free(s, p) ==
    IF p <= 0 THEN s
    ELSE Logged([s EXCEPT !.heap[p].live = FALSE],
                Ev("free", s.heap[p].kind, p, IF s.heap[p].live THEN 0 ELSE 1))

Zeros(n) == [i \in 1..n |-> 0]

(***************************************************************************)
(* Offsets.  A size_t or unsigned int offset is a pair << hi, lo >> worth   *)
(* hi * 2^16 + lo with lo < 2^16, so that 32-bit truncation is computed     *)
(* although TLC's integers end at 2^31 - 1.                                 *)
(***************************************************************************)
W16 == 256 * 256

\* the pair of a small number
Wide(n) == << n \div W16, n % W16 >>

\* offset + n on size_t, for 0 <= n < 2^31 - 2^16 (the offsets drawn stay far
\* below 2^64, where size_t would wrap)
WideAdd(w, n) == << w[1] + ((w[2] + n) \div W16), (w[2] + n) % W16 >>

\* the conversion of a size_t to unsigned int: the low 32 bits
Trunc32(w) == << w[1] % W16, w[2] >>

(***************************************************************************)
(* What the environment does to one do_cmd(): asprintf may fail, open(2)   *)
(* may fail, the opened node may not be the device's character node, the   *)
(* ioctl may fail, and a send that runs reports the device's status and    *)
(* writes data, the bytes of its answer, to the output payload.            *)
(***************************************************************************)
DoOk == [oom |-> FALSE, open_errno |-> 0, node_ok |-> TRUE, ioctl_errno |-> 0,
         retval |-> 0, data |-> << >>]

\* mailbox status codes a device reports for a send that ran (0: success,
\* 2: invalid input)
DevStatus == {0, 2}

DoEnvs ==
    {[DoOk EXCEPT !.retval = r] : r \in DevStatus}
    \cup {[DoOk EXCEPT !.oom = TRUE], [DoOk EXCEPT !.node_ok = FALSE]}
    \cup {[DoOk EXCEPT !.open_errno = e] : e \in TransportErrnos}
    \cup {[DoOk EXCEPT !.ioctl_errno = e] : e \in TransportErrnos}

\* a calloc'ed struct cxl_command_info
ZeroInfo == [id |-> "INVALID", size_in |-> 0, size_out |-> 0]

\* the kernel's CXL_MEM_QUERY_COMMANDS: with n_commands = 0 it reports the
\* number of commands, otherwise it fills up to n_commands entries
KernelQuery(q, caps) ==
    IF q.n_commands = 0 THEN [q EXCEPT !.n_commands = Len(caps)]
    ELSE [q EXCEPT !.commands =
            [i \in 1..q.n_commands |-> IF i <= Len(caps) THEN caps[i] ELSE ZeroInfo]]

\* the label range a send command's input payload names lies in the label area
LsaInRange(s, len) ==
    /\ Len(s.cmd.inbuf) >= 3
    /\ s.cmd.inbuf[1] = 0
    /\ s.cmd.inbuf[2] + len <= Len(s.label)

\* the device runs GET_LSA: the named range is copied to the output payload
DeviceGetLsa(s) ==
    IF LsaInRange(s, s.cmd.inbuf[3])
    THEN [s EXCEPT !.cmd.send.retval = 0,
                   !.cmd.outbuf =
                       [i \in 1..Len(@) |->
                          IF i <= s.cmd.inbuf[3] THEN s.label[s.cmd.inbuf[2] + i]
                          ELSE @[i]],
                   !.rx = Append(@, [id |-> "GET_LSA", hi |-> s.cmd.inbuf[1],
                                     lo |-> s.cmd.inbuf[2], len |-> s.cmd.inbuf[3],
                                     status |-> 0])]
    ELSE [s EXCEPT !.cmd.send.retval = 2]

\* the device runs SET_LSA: the data after the header is stored at the offset
DeviceSetLsa(s) ==
    IF LsaInRange(s, Len(s.cmd.inbuf) - 3)
    THEN [s EXCEPT !.cmd.send.retval = 0,
                   !.label =
                       [i \in 1..Len(@) |->
                          IF /\ i > s.cmd.inbuf[2]
                             /\ i <= s.cmd.inbuf[2] + Len(s.cmd.inbuf) - 3
                          THEN s.cmd.inbuf[3 + i - s.cmd.inbuf[2]]
                          ELSE @[i]],
                   !.rx = Append(@, [id |-> "SET_LSA", hi |-> s.cmd.inbuf[1],
                                     lo |-> s.cmd.inbuf[2], len |-> Len(s.cmd.inbuf) - 3,
                                     status |-> 0])]
    ELSE [s EXCEPT !.cmd.send.retval = 2]

\* the output payload after the device wrote the bytes of its answer
DeviceAnswer(buf, data) ==
    [i \in 1..Len(buf) |-> IF i <= Len(data) THEN data[i] ELSE buf[i]]

\* the kernel's CXL_MEM_SEND_COMMAND: the device runs the command and its
\* status is stored in retval
KernelSend(s, denv) ==
    IF denv.retval # 0
    THEN [s EXCEPT !.cmd.send.retval = denv.retval,
                   !.rx = Append(@, [id |-> s.cmd.send.id, hi |-> 0, lo |-> 0,
                                     len |-> 0, status |-> denv.retval])]
    ELSE IF s.cmd.send.id = "GET_LSA" THEN DeviceGetLsa(s)
    ELSE IF s.cmd.send.id = "SET_LSA" THEN DeviceSetLsa(s)
    ELSE [s EXCEPT !.cmd.send.retval = 0,
                   !.cmd.outbuf = DeviceAnswer(@, denv.data),
                   !.rx = Append(@, [id |-> s.cmd.send.id, hi |-> 0, lo |-> 0,
                                     len |-> 0, status |-> 0])]

\* __do_cmd(): the ioctl on the validated node
do_cmd_ioctl(s, ioc, denv, caps) ==
    IF denv.ioctl_errno # 0
    THEN Ret(Logged([s EXCEPT !.errno = denv.ioctl_errno],
                    Ev("ioctl", ioc, IF ioc = "QUERY" THEN s.cmd.query.n_commands ELSE 0,
                       -denv.ioctl_errno)),
             -denv.ioctl_errno)
    ELSE IF ioc = "QUERY"
    THEN Ret(Logged([s EXCEPT !.cmd.query = KernelQuery(@, caps)],
                    Ev("ioctl", ioc, s.cmd.query.n_commands, 0)), 0)
    ELSE Ret(Logged(KernelSend(s, denv), Ev("ioctl", ioc, 0, 0)), 0)

\* a do_cmd() that issues the ioctl on whatever node it opened, to compare
\* against
do_cmd_anynode(s, ioc, denv, caps) ==
    IF denv.oom THEN Ret([s EXCEPT !.errno = ENOMEM], -ENOMEM)
    ELSE IF denv.open_errno # 0
    THEN Ret(Logged([s EXCEPT !.errno = denv.open_errno],
                    Ev("open", ioc, 0, -denv.open_errno)), -denv.open_errno)
    ELSE do_cmd_ioctl(s, ioc, denv, caps)

\* do_cmd(): open the device node, validate it, issue the ioctl
do_cmd(s, ioc, denv, caps) ==
    IF denv.oom THEN Ret([s EXCEPT !.errno = ENOMEM], -ENOMEM)
    ELSE IF denv.open_errno # 0
    THEN Ret(Logged([s EXCEPT !.errno = denv.open_errno],
                    Ev("open", ioc, 0, -denv.open_errno)), -denv.open_errno)
    ELSE IF ~denv.node_ok
    THEN Ret(Logged(s, Ev("badnode", ioc, 0, -ENXIO)), -ENXIO)
    ELSE do_cmd_ioctl(s, ioc, denv, caps)

\* cxl_cmd_alloc_query() after the free of the old query: oom says that
\* calloc fails
alloc_query_calloc(f, num_cmds, oom) ==
    IF oom
    THEN Ret([f EXCEPT !.cmd.query_cmd = 0, !.cmd.query = NoQuery, !.errno = ENOMEM],
             -ENOMEM)
    ELSE Ret([Calloc(f, "query", num_cmds)
                EXCEPT !.cmd.query_cmd = NewBlock(f),
                       !.cmd.query = [n_commands |-> num_cmds,
                                      commands |-> [i \in 1..num_cmds |-> ZeroInfo]]],
             0)

cxl_cmd_alloc_query(s, num_cmds, oom) ==
    alloc_query_calloc(Free(s, s.cmd.query_cmd), num_cmds, oom)

\* alloc_do_query() after cxl_cmd_alloc_query()
alloc_do_query_cmd(a, denv, caps) ==
    IF a.rc # 0 THEN a ELSE do_cmd(a, "QUERY", denv, caps)

alloc_do_query(s, num_cmds, oom, denv, caps) ==
    alloc_do_query_cmd(cxl_cmd_alloc_query(s, num_cmds, oom), denv, caps)

\* what the environment does to one build: which allocation fails (if any)
\* and how the two queries fare
BuildOk == [oom |-> "none", q0 |-> DoOk, q1 |-> DoOk]

AllocSites == {"cmd", "query0", "query1", "send", "in", "out"}

BuildEnvs ==
    {BuildOk}
    \cup {[BuildOk EXCEPT !.oom = a] : a \in AllocSites}
    \cup {[BuildOk EXCEPT !.q0 = d] : d \in DoEnvs}
    \cup {[BuildOk EXCEPT !.q1 = d] : d \in DoEnvs}

\* a cxl_cmd_do_query() that goes on to the second query whatever the first
\* returned, to compare against
do_query_second_unchecked(a, env, caps) ==
    alloc_do_query(a, a.cmd.query.n_commands, env.oom = "query1", env.q1, caps)

\* cxl_cmd_do_query() after the first query
do_query_second(a, env, caps) ==
    IF a.rc # 0 THEN a
    ELSE alloc_do_query(a, a.cmd.query.n_commands, env.oom = "query1", env.q1, caps)

cxl_cmd_do_query(s, env, caps) ==
    CASE s.cmd.query_status = "OK" -> Ret(s, 0)
      [] s.cmd.query_status = "UNSUPPORTED" -> Ret(s, -EOPNOTSUPP)
      [] OTHER ->
           do_query_second(alloc_do_query(s, 0, env.oom = "query0", env.q0, caps),
                           env, caps)

\* the indexes (from 0) of the capability entries with this id
Matches(q, cmd_id) ==
    {i \in 0..(q.n_commands - 1) : q.commands[i + 1].id = cmd_id}

SetMin(S) == CHOOSE x \in S : \A y \in S : x <= y

cxl_cmd_validate(s, cmd_id) ==
    IF Matches(s.cmd.query, cmd_id) # {}
    THEN Ret(Logged([s EXCEPT !.cmd.query_idx = SetMin(Matches(s.cmd.query, cmd_id)),
                              !.cmd.query_status = "OK"],
                    Ev("search", cmd_id, 0, 0)), 0)
    ELSE Ret(Logged([s EXCEPT !.cmd.query_status = "UNSUPPORTED"],
                    Ev("search", cmd_id, 0, -EOPNOTSUPP)), -EOPNOTSUPP)

\* the automatic payload allocations of cxl_cmd_alloc_send()
AllocSendOut(s, cinfo, oom) ==
    IF cinfo.size_out <= 0 THEN Ret(s, 0)
    ELSE IF oom = "out"
    THEN Ret([s EXCEPT !.cmd.output_payload = 0, !.errno = ENOMEM], -ENOMEM)
    ELSE Ret([Calloc(s, "out", cinfo.size_out)
                EXCEPT !.cmd.output_payload = NewBlock(s),
                       !.cmd.send.out_payload = NewBlock(s),
                       !.cmd.outbuf = Zeros(cinfo.size_out),
                       !.cmd.send.out_size = cinfo.size_out], 0)

AllocSendIn(s, cinfo, oom) ==
    IF cinfo.size_in <= 0 THEN AllocSendOut(s, cinfo, oom)
    ELSE IF oom = "in"
    THEN Ret([s EXCEPT !.cmd.input_payload = 0, !.errno = ENOMEM], -ENOMEM)
    ELSE AllocSendOut([Calloc(s, "in", cinfo.size_in)
                         EXCEPT !.cmd.input_payload = NewBlock(s),
                                !.cmd.send.in_payload = NewBlock(s),
                                !.cmd.inbuf = Zeros(cinfo.size_in),
                                !.cmd.send.in_size = cinfo.size_in], cinfo, oom)

\* cxl_cmd_alloc_send() after the calloc of the send descriptor
alloc_send_check(b, cinfo, cmd_id, oom) ==
    IF cinfo.id # cmd_id THEN Ret(b, -EINVAL)
    ELSE AllocSendIn([b EXCEPT !.cmd.send.id = cmd_id], cinfo, oom)

cxl_cmd_alloc_send(s, cmd_id, oom) ==
    IF s.cmd.query_cmd = 0 THEN Ret(s, -EINVAL)
    ELSE IF oom = "send"
    THEN Ret([s EXCEPT !.cmd.send_cmd = 0, !.errno = ENOMEM], -ENOMEM)
    ELSE alloc_send_check([Calloc(s, "send", 1)
                             EXCEPT !.cmd.send_cmd = NewBlock(s), !.cmd.send = NoSend],
                          s.cmd.query.commands[s.cmd.query_idx + 1], cmd_id, oom)

\* cxl_cmd_unref() dropping the last reference: the command's buffers and
\* the command are freed
free_cmd(s) ==
    [Free(Free(Free(Free(Free(s, s.cmd.query_cmd), s.cmd.send_cmd),
                    s.cmd.input_payload), s.cmd.output_payload), s.cmd.self)
       EXCEPT !.cmd = NoCmd]

\* cxl_cmd_unref() of a command that exists
cxl_cmd_unref(s) ==
    IF s.cmd.refcount - 1 # 0 THEN [s EXCEPT !.cmd.refcount = @ - 1]
    ELSE free_cmd(s)

\* cxl_cmd_new(): a zeroed command holding one reference
cxl_cmd_new(s) ==
    [Calloc(s, "cmd", 1) EXCEPT !.cmd = [NoCmd EXCEPT !.self = NewBlock(s),
                                                      !.refcount = 1]]

\* the fail: label of cxl_cmd_new_generic(), reached with errno = -rc
new_generic_fail(r) == Ret(cxl_cmd_unref([r EXCEPT !.errno = -r.rc]), r.rc)

\* cxl_cmd_new_generic() after cxl_cmd_alloc_send()
new_generic_status(a) ==
    IF a.rc # 0 THEN new_generic_fail(a) ELSE Ret([a EXCEPT !.cmd.status = 1], 0)

\* cxl_cmd_new_generic() after cxl_cmd_validate()
new_generic_alloc_send(v, cmd_id, env) ==
    IF v.rc # 0 THEN new_generic_fail(v)
    ELSE new_generic_status(cxl_cmd_alloc_send(v, cmd_id, env.oom))

\* cxl_cmd_new_generic() after cxl_cmd_do_query()
new_generic_validate(q, cmd_id, env) ==
    IF q.rc # 0 THEN Ret(cxl_cmd_unref(q), q.rc)
    ELSE new_generic_alloc_send(cxl_cmd_validate(q, cmd_id), cmd_id, env)

\* cxl_cmd_new_generic(): rc = 0 and a command, or rc < 0 and none (NULL)
cxl_cmd_new_generic(s0, cmd_id, env, caps) ==
    IF env.oom = "cmd" THEN Ret([s0 EXCEPT !.errno = ENOMEM], -ENOMEM)
    ELSE new_generic_validate(cxl_cmd_do_query(cxl_cmd_new(s0), env, caps),
                              cmd_id, env)

\* cxl_cmd_set_input_payload(): hasbuf says the caller supplied buf, whose
\* contents are data; oom that calloc fails
cxl_cmd_set_input_payload(s, hasbuf, data, size, payload_max, oom) ==
    IF size > payload_max \/ size < 0 THEN Ret(s, -EINVAL)
    ELSE IF ~hasbuf
    THEN IF oom THEN Ret([s EXCEPT !.cmd.input_payload = 0, !.errno = ENOMEM], -ENOMEM)
         ELSE Ret([Calloc(s, "in", size)
                     EXCEPT !.cmd.input_payload = NewBlock(s),
                            !.cmd.send.in_payload = NewBlock(s),
                            !.cmd.inbuf = Zeros(size),
                            !.cmd.send.in_size = size], 0)
    ELSE Ret([s EXCEPT !.cmd.send.in_payload = USERBUF,
                       !.cmd.inbuf = data,
                       !.cmd.send.in_size = size], 0)

\* a cxl_cmd_set_output_payload() lacking the upper bound on size, to
\* compare against
set_output_payload_unbounded(s, hasbuf, data, size, payload_max, oom) ==
    IF size < 0 THEN Ret(s, -EINVAL)
    ELSE IF ~hasbuf
    THEN Ret([Calloc(s, "out", size)
                EXCEPT !.cmd.output_payload = NewBlock(s),
                       !.cmd.send.out_payload = NewBlock(s),
                       !.cmd.outbuf = Zeros(size),
                       !.cmd.send.out_size = size], 0)
    ELSE Ret([s EXCEPT !.cmd.send.out_payload = USERBUF,
                       !.cmd.outbuf = data,
                       !.cmd.send.out_size = size], 0)

cxl_cmd_set_output_payload(s, hasbuf, data, size, payload_max, oom) ==
    IF size > payload_max \/ size < 0 THEN Ret(s, -EINVAL)
    ELSE IF ~hasbuf
    THEN IF oom THEN Ret([s EXCEPT !.cmd.output_payload = 0, !.errno = ENOMEM], -ENOMEM)
         ELSE Ret([Calloc(s, "out", size)
                     EXCEPT !.cmd.output_payload = NewBlock(s),
                            !.cmd.send.out_payload = NewBlock(s),
                            !.cmd.outbuf = Zeros(size),
                            !.cmd.send.out_size = size], 0)
    ELSE Ret([s EXCEPT !.cmd.send.out_payload = USERBUF,
                       !.cmd.outbuf = data,
                       !.cmd.send.out_size = size], 0)

\* cxl_cmd_new_raw() after the generic build
new_raw_opcode(g, opcode) ==
    IF g.rc # 0 THEN g ELSE [g EXCEPT !.cmd.send.opcode = opcode]

cxl_cmd_new_raw(s, opcode, env, caps) ==
    IF opcode <= 0 THEN Ret([s EXCEPT !.errno = EINVAL], -EINVAL)
    ELSE new_raw_opcode(cxl_cmd_new_generic(s, "RAW", env, caps), opcode)

\* cxl_cmd_new_read_label() after the generic build: the request header
\* {offset, length} is written to the input payload
new_read_label_fill(g, offset, length) ==
    IF g.rc # 0 THEN g
    ELSE Logged([g EXCEPT !.cmd.inbuf = << offset[1], offset[2], length >>],
                Ev("write", "in", 2, 0))

\* cxl_cmd_new_read_label(): offset is the unsigned int parameter (a pair)
cxl_cmd_new_read_label(s, offset, length, env, caps) ==
    new_read_label_fill(cxl_cmd_new_generic(s, "GET_LSA", env, caps), offset, length)

\* cxl_cmd_new_write_label() after cxl_cmd_set_input_payload(): a failure
\* frees the command; else the header {offset, rsvd} and the label data are
\* written to the input payload
new_write_label_fill(p, lsa_buf, offset, length) ==
    IF p.rc # 0 THEN Ret(cxl_cmd_unref(p), p.rc)
    ELSE Logged([p EXCEPT !.cmd.inbuf = << offset[1], offset[2], 0 >>
                                        \o SubSeq(lsa_buf, 1, length)],
                Ev("write", "in", 2 + length, 0))

\* cxl_cmd_new_write_label() after the generic build
new_write_label_payload(g, lsa_buf, offset, length, oom, payload_max) ==
    IF g.rc # 0 THEN g
    ELSE new_write_label_fill(
             cxl_cmd_set_input_payload(g, FALSE, << >>, 8 + length, payload_max, oom),
             lsa_buf, offset, length)

cxl_cmd_new_write_label(s, lsa_buf, offset, length, env, caps, payload_max) ==
    new_write_label_payload(cxl_cmd_new_generic(s, "SET_LSA", env, caps),
                            lsa_buf, offset, length, env.oom = "in", payload_max)

\* a cxl_cmd_submit() that leaves cmd->status alone, to compare against
submit_nostatus(d) == d

\* cxl_cmd_submit() after do_cmd(): the status is read whatever do_cmd returned
submit_status(d) == [d EXCEPT !.cmd.status = d.cmd.send.retval]

\* a cxl_cmd_submit() that does not look at query_status, to compare against
submit_unguarded(s, denv, caps) == submit_status(do_cmd(s, "SEND", denv, caps))

\* cxl_cmd_submit(): the send is issued only with query_status OK
cxl_cmd_submit(s, denv, caps) ==
    CASE s.cmd.query_status = "UNSUPPORTED" -> Ret(s, -EOPNOTSUPP)
      [] s.cmd.query_status = "NOT_RUN" -> Ret(s, -EINVAL)
      [] OTHER -> submit_status(do_cmd(s, "SEND", denv, caps))

\* cxl_cmd_get_mbox_status()
cxl_cmd_get_mbox_status(s) == s.cmd.status

(***************************************************************************)
(* Label storage area transfers: lsa_op() and __lsa_op().                  *)
(***************************************************************************)
\* what the environment does to one __lsa_op(): to the build of its command,
\* to the calloc of the zero buffer, to the send
LsaOk == [build |-> BuildOk, zero_oom |-> FALSE, send |-> DoOk]

LsaEnvs ==
    {LsaOk}
    \cup {[LsaOk EXCEPT !.build = b] : b \in BuildEnvs}
    \cup {[LsaOk EXCEPT !.send = d] : d \in DoEnvs}
    \cup {[LsaOk EXCEPT !.zero_oom = TRUE]}

cxl_cmd_validate_status(s, id) ==
    IF s.cmd.send.id # id THEN -EINVAL
    ELSE IF s.cmd.status < 0 THEN s.cmd.status
    ELSE 0

\* cxl_cmd_read_label_get_payload(): the output payload is the caller's
\* buffer itself, so the memcpy() leaves its contents as the device wrote them
cxl_cmd_read_label_get_payload(s, length) ==
    IF cxl_cmd_validate_status(s, "GET_LSA") # 0
    THEN Ret(s, cxl_cmd_validate_status(s, "GET_LSA"))
    ELSE IF length > s.cmd.inbuf[3] THEN Ret(s, -EINVAL)
    ELSE Ret(s, length)

\* __lsa_op() after cxl_cmd_read_label_get_payload(): rc stays 0 unless
\* ret_len < 0
lsa_get_rc(p) == IF p.rc < 0 THEN p ELSE Ret(p, 0)

\* __lsa_op() after cxl_cmd_submit(): the transport result, then the
\* device's status, then (for a read) the payload
lsa_status(d, op, length) ==
    IF d.rc < 0 THEN d
    ELSE IF d.cmd.status # 0 THEN Ret(d, -ENXIO)
    ELSE IF op = "GET" THEN lsa_get_rc(cxl_cmd_read_label_get_payload(d, length))
    ELSE Ret(d, 0)

\* a __lsa_op() whose sends never reach the caller's buffer, to compare
\* against
lsa_out_nocopy(s, zero_buf) == Free(cxl_cmd_unref(s), zero_buf)

\* the out: and out_free: labels of __lsa_op(); ubuf is what the caller's
\* buffer holds by then
lsa_out(s, zero_buf) ==
    Free([cxl_cmd_unref(s) EXCEPT !.ubuf = IF s.cmd.send.out_payload = USERBUF
                                           THEN s.cmd.outbuf ELSE @],
         zero_buf)

\* __lsa_op() from cxl_cmd_submit() on
lsa_submit(c, op, length, denv, caps, zero_buf) ==
    lsa_out(lsa_status(cxl_cmd_submit(c, denv, caps), op, length), zero_buf)

\* __lsa_op(), LSA_OP_GET, after cxl_cmd_set_output_payload()
lsa_get_submit(p, length, denv, caps) ==
    IF p.rc # 0 THEN lsa_out(p, 0)
    ELSE lsa_submit(p, "GET", length, denv, caps, 0)

\* __lsa_op(), LSA_OP_GET, after cxl_cmd_new_read_label()
lsa_get_setup(g, buf, length, denv, caps, payload_max) ==
    IF g.rc # 0 THEN Ret(g, -ENOMEM)
    ELSE lsa_get_submit(cxl_cmd_set_output_payload(g, TRUE, buf, length, payload_max,
                                                   FALSE),
                        length, denv, caps)

\* a __lsa_op() that submits nothing for LSA_OP_ZERO, to compare against
lsa_set_zero_skipped(w, op, length, denv, caps, zero_buf) ==
    IF w.rc # 0 THEN Ret(Free(w, zero_buf), -ENOMEM)
    ELSE IF op = "ZERO" THEN lsa_out(Ret(w, 0), zero_buf)
    ELSE lsa_submit(w, op, length, denv, caps, zero_buf)

\* __lsa_op(), LSA_OP_SET and LSA_OP_ZERO, after cxl_cmd_new_write_label()
lsa_set_submit(w, op, length, denv, caps, zero_buf) ==
    IF w.rc # 0 THEN Ret(Free(w, zero_buf), -ENOMEM)
    ELSE lsa_submit(w, op, length, denv, caps, zero_buf)

\* __lsa_op(): one transaction; offset is the size_t argument, which the
\* label builders take as unsigned int
lsa_op_one(s, op, buf, length, offset, env, caps, payload_max) ==
    CASE op = "GET" ->
           lsa_get_setup(cxl_cmd_new_read_label(s, Trunc32(offset), length, env.build,
                                                caps),
                         buf, length, env.send, caps, payload_max)
      [] op = "ZERO" ->
           IF env.zero_oom THEN Ret(s, -ENOMEM)
           ELSE lsa_set_submit(
                    cxl_cmd_new_write_label(Calloc(s, "zero", length), Zeros(length),
                                            Trunc32(offset), length, env.build, caps,
                                            payload_max),
                    op, length, env.send, caps, NewBlock(s))
      [] op = "SET" ->
           lsa_set_submit(cxl_cmd_new_write_label(s, buf, Trunc32(offset), length,
                                                  env.build, caps, payload_max),
                          op, length, env.send, caps, 0)
      [] OTHER -> Ret(s, -EOPNOTSUPP)

\* sizeof(struct cxl_cmd_set_lsa)
SET_LSA_HDR == 8

\* a label_iter_max that leaves no room for the header of a write, to compare
\* against
label_iter_max_nohdr(payload_max) == payload_max

\* label_iter_max of lsa_op(), an int
label_iter_max(payload_max) == payload_max - SET_LSA_HDR

\* min((size_t)label_iter_max, remaining): a negative label_iter_max
\* converts to a size_t near 2^64, above any remaining
cur_len_of(iter_max, remaining) ==
    IF iter_max < 0 THEN remaining ELSE Min(iter_max, remaining)

\* the frame of lsa_op(): no transfer in progress
NoLsa == [pc |-> "idle", op |-> "none", hasbuf |-> FALSE, offset |-> << 0, 0 >>,
          length |-> 0, remaining |-> 0, cur_off |-> 0, rc |-> 0, buf |-> << >>,
          txs |-> << >>]

\* lsa_op() up to its loop
lsa_op_enter(l) ==
    IF l.op # "ZERO" /\ ~l.hasbuf THEN [l EXCEPT !.rc = -EINVAL]
    ELSE IF l.length = 0 THEN [l EXCEPT !.rc = 0]
    ELSE [l EXCEPT !.pc = "loop", !.remaining = l.length]

\* buf with the cells from cur_off on replaced by chunk
BufWith(buf, cur_off, chunk) ==
    [i \in 1..Len(buf) |->
        IF i > cur_off /\ i <= cur_off + Len(chunk) THEN chunk[i - cur_off] ELSE buf[i]]

\* the chunk of the caller's buffer at buf + cur_off
BufAt(l, cur_len) ==
    IF l.hasbuf THEN SubSeq(l.buf, l.cur_off + 1, l.cur_off + cur_len) ELSE << >>

\* a lsa_op() loop that does not stop on a failed transaction, to compare
\* against
lsa_op_next_nobreak(l, cur_len, r) ==
    LET t == Append(l.txs, [cur_off |-> l.cur_off, cur_len |-> cur_len, rc |-> r.rc]) IN
    IF l.remaining - cur_len = 0
    THEN [l EXCEPT !.pc = "idle", !.rc = r.rc, !.txs = t,
                   !.remaining = 0, !.cur_off = @ + cur_len]
    ELSE [l EXCEPT !.txs = t, !.rc = r.rc, !.remaining = @ - cur_len,
                   !.cur_off = @ + cur_len]

\* the rest of one iteration of the loop of lsa_op(), r being what
\* __lsa_op() returned: break on rc, else advance; the loop ends when
\* nothing remains
lsa_op_next(l, cur_len, r) ==
    LET t == Append(l.txs, [cur_off |-> l.cur_off, cur_len |-> cur_len, rc |-> r.rc]) IN
    IF r.rc # 0
    THEN [l EXCEPT !.pc = "idle", !.rc = r.rc, !.txs = t,
                   !.buf = IF l.op = "GET" THEN BufWith(@, l.cur_off, r.ubuf) ELSE @]
    ELSE IF l.remaining - cur_len = 0
    THEN [l EXCEPT !.pc = "idle", !.rc = 0, !.txs = t, !.remaining = 0,
                   !.cur_off = @ + cur_len,
                   !.buf = IF l.op = "GET" THEN BufWith(@, l.cur_off, r.ubuf) ELSE @]
    ELSE [l EXCEPT !.txs = t, !.rc = 0, !.remaining = @ - cur_len,
                   !.cur_off = @ + cur_len,
                   !.buf = IF l.op = "GET" THEN BufWith(@, l.cur_off, r.ubuf) ELSE @]

(***************************************************************************)
(* Output accessors.  The output payload is bytes, its fields little-endian *)
(* as the device wrote them.  A number of 16, 32 or 64 bits is the sequence *)
(* of its base-256 digits, most significant first, so that 64-bit           *)
(* arithmetic is computed although TLC's integers end at 2^31 - 1.  An      *)
(* accessor's result is what it returns (ret) and whether the return read   *)
(* the output payload (parsed).                                             *)
(***************************************************************************)
\* the n bytes of a structure at byte offset off
Field(buf, off, n) == [i \in 1..n |-> buf[off + i]]

\* le16_to_cpu(), le32_to_cpu(), le64_to_cpu(): the digits of the number
\* whose little-endian bytes are given
le_to_cpu(bytes) == [i \in 1..Len(bytes) |-> bytes[Len(bytes) + 1 - i]]

\* the 32-bit pattern of an int, and an unsigned 64-bit number below 2^31
U32(n) == [i \in 1..4 |-> (n \div (256 ^ (4 - i))) % 256]
U64(n) == Zeros(4) \o U32(n)

ULLONG_MAX == [i \in 1..8 |-> 255]

\* the conversion of a 16-bit or 32-bit unsigned number to int
ToInt(d) ==
    IF Len(d) = 2 THEN d[1] * 256 + d[2]
    ELSE IF d[1] < 128 THEN ((d[1] * 256 + d[2]) * 256 + d[3]) * 256 + d[4]
    ELSE -((((255 - d[1]) * 256 + 255 - d[2]) * 256 + 255 - d[3]) * 256 + 255 - d[4]) - 1

\* the digit of weight 256^k
Digit(x, k) == x[Len(x) - k]

\* the sum of the digit products of weight 256^k in x * y, from index i on
RECURSIVE mul_column(_, _, _, _)
mul_column(x, y, k, i) ==
    IF i > k THEN 0
    ELSE Digit(x, i) * Digit(y, k - i) + mul_column(x, y, k, i + 1)

\* the digits of x * y of weights 256^k and above, least significant first,
\* dropped beyond 64 bits
RECURSIVE mul_from(_, _, _, _)
mul_from(x, y, k, carry) ==
    IF k > 7 THEN << >>
    ELSE << (mul_column(x, y, k, 0) + carry) % 256 >>
         \o mul_from(x, y, k + 1, (mul_column(x, y, k, 0) + carry) \div 256)

\* x * y on uint64_t
Mul64(x, y) == le_to_cpu(mul_from(x, y, 0, 0))

\* a cxl_capacity_to_bytes() that saturates where the product leaves 64
\* bits, to compare against
capacity_saturating(size) ==
    IF size[5] >= 16 \/ \E i \in 6..8 : size[i] # 0 THEN ULLONG_MAX
    ELSE Mul64(le_to_cpu(size), U64(CXL_CAPACITY_MULTIPLIER))

cxl_capacity_to_bytes(size) == Mul64(le_to_cpu(size), U64(CXL_CAPACITY_MULTIPLIER))

AccErr(rc) == [ret |-> rc, parsed |-> FALSE]
AccVal(v) == [ret |-> v, parsed |-> TRUE]

\* the cmd_get_field_u8, _u16, _u32 and _u8_mask macros, for the field at
\* byte offset off of the structure of command id (mask is one bit)
cmd_get_field_u8(s, id, off) ==
    IF cxl_cmd_validate_status(s, id) # 0 THEN AccErr(cxl_cmd_validate_status(s, id))
    ELSE AccVal(s.cmd.outbuf[off + 1])

cmd_get_field_u16(s, id, off) ==
    IF cxl_cmd_validate_status(s, id) # 0 THEN AccErr(cxl_cmd_validate_status(s, id))
    ELSE AccVal(ToInt(le_to_cpu(Field(s.cmd.outbuf, off, 2))))

cmd_get_field_u32(s, id, off) ==
    IF cxl_cmd_validate_status(s, id) # 0 THEN AccErr(cxl_cmd_validate_status(s, id))
    ELSE AccVal(ToInt(le_to_cpu(Field(s.cmd.outbuf, off, 4))))

cmd_get_field_u8_mask(s, id, off, mask) ==
    IF cxl_cmd_validate_status(s, id) # 0 THEN AccErr(cxl_cmd_validate_status(s, id))
    ELSE AccVal((s.cmd.outbuf[off + 1] \div mask) % 2)

\* cmd_health_check_media_field: media_status == f
cmd_health_check_media_field(s, f) ==
    IF cxl_cmd_validate_status(s, "GET_HEALTH_INFO") # 0
    THEN AccErr(cxl_cmd_validate_status(s, "GET_HEALTH_INFO"))
    ELSE AccVal(IF s.cmd.outbuf[2] = f THEN 1 ELSE 0)

\* cmd_health_check_ext_field: FIELD_GET(mask, ext_status) == type, the mask
\* being width bits from bit shift on
cmd_health_check_ext_field(s, shift, width, type) ==
    IF cxl_cmd_validate_status(s, "GET_HEALTH_INFO") # 0
    THEN AccErr(cxl_cmd_validate_status(s, "GET_HEALTH_INFO"))
    ELSE AccVal(IF (s.cmd.outbuf[3] \div (2 ^ shift)) % (2 ^ width) = type THEN 1 ELSE 0)

\* cxl_cmd_health_info_get_life_used() and _get_temperature(): the raw field,
\* unless it says not implemented
health_not_impl(r, not_impl) ==
    IF r.ret < 0 THEN r
    ELSE IF r.ret = not_impl THEN [r EXCEPT !.ret = -EOPNOTSUPP]
    ELSE r

cxl_cmd_health_info_get_life_used(s) ==
    health_not_impl(cmd_get_field_u8(s, "GET_HEALTH_INFO", 3), 255)

cxl_cmd_health_info_get_temperature(s) ==
    health_not_impl(cmd_get_field_u16(s, "GET_HEALTH_INFO", 4), 65535)

\* cmd_to_identify() and cmd_to_get_partition(): the structure in
\* cmd->output_payload, or NULL (<< >>); output_payload is the block
\* send.out_payload points to while the caller sets no payload of its own
cmd_to_identify(s) ==
    IF cxl_cmd_validate_status(s, "IDENTIFY") # 0 THEN << >> ELSE s.cmd.outbuf

cmd_to_get_partition(s) ==
    IF cxl_cmd_validate_status(s, "GET_PARTITION_INFO") # 0 THEN << >> ELSE s.cmd.outbuf

\* the capacity accessors: ULLONG_MAX without the structure, else the field
\* of 8 bytes at offset off, converted
capacity_of(c, off) ==
    IF c = << >> THEN AccErr(ULLONG_MAX)
    ELSE AccVal(cxl_capacity_to_bytes(Field(c, off, 8)))

cxl_cmd_identify_get_total_size(s) == capacity_of(cmd_to_identify(s), 16)
cxl_cmd_identify_get_volatile_only_size(s) == capacity_of(cmd_to_identify(s), 24)
cxl_cmd_identify_get_persistent_only_size(s) == capacity_of(cmd_to_identify(s), 32)
cxl_cmd_identify_get_partition_align(s) == capacity_of(cmd_to_identify(s), 40)

cxl_cmd_partition_get_active_volatile_size(s) == capacity_of(cmd_to_get_partition(s), 0)
cxl_cmd_partition_get_active_persistent_size(s) == capacity_of(cmd_to_get_partition(s), 8)
cxl_cmd_partition_get_next_volatile_size(s) == capacity_of(cmd_to_get_partition(s), 16)
cxl_cmd_partition_get_next_persistent_size(s) == capacity_of(cmd_to_get_partition(s), 24)

\* cxl_cmd_identify_get_label_size(): unsigned int, so an error is returned
\* as its 32-bit pattern
cxl_cmd_identify_get_label_size(s) ==
    IF s.cmd.send.id # "IDENTIFY" THEN AccErr(U32(-EINVAL))
    ELSE IF s.cmd.status < 0 THEN AccErr(U32(s.cmd.status))
    ELSE AccVal(le_to_cpu(Field(s.cmd.outbuf, 56, 4)))

\* a cxl_cmd_identify_get_fw_rev() that does not look at the command id, to
\* compare against
identify_get_fw_rev_anyid(s) ==
    IF s.cmd.status < 0 THEN AccErr(s.cmd.status) ELSE AccVal(0)

\* cxl_cmd_identify_get_fw_rev(): 0 once fw_revision is copied out
cxl_cmd_identify_get_fw_rev(s) ==
    IF s.cmd.send.id # "IDENTIFY" THEN AccErr(-EINVAL)
    ELSE IF s.cmd.status < 0 THEN AccErr(s.cmd.status)
    ELSE AccVal(0)

\* what cxl_cmd_read_label_get_payload() returned: the length once the
\* payload is copied out
read_label_result(r) == [ret |-> r.rc, parsed |-> r.rc >= 0]

(***************************************************************************)
(* The topology: the context's memory devices and buses, and under each    *)
(* bus its ports, endpoints, decoders and downstream ports, discovered     *)
(* lazily from the external device tree.                                   *)
(*                                                                         *)
(* The external tree is fixed: buses root0 and root4; under root0 the      *)
(* switch port1, under which endpoint2 (host mem0) and endpoint3 (host     *)
(* mem1).  Only the driver links of the devices change.  A library object  *)
(* is named by the id of the device it was built for; a pointer to it also *)
(* carries the number of invalidations at its creation (gen), which tells  *)
(* a pointer to a freed object from one to its successor.                  *)
(***************************************************************************)
MemIds == {0, 1}
BusIds == {0, 4}
PortIds == {0, 1, 2, 3, 4}

\* the child devices of a port in the external tree, by kind
ExtPorts(p) == IF p = 0 THEN {1} ELSE {}
ExtEndpoints(p) == IF p = 1 THEN {2, 3} ELSE {}
ExtDecoders(p) == IF p = 0 THEN {0} ELSE IF p = 1 THEN {0, 1} ELSE {}
ExtDports(p) == IF p = 0 THEN {0} ELSE IF p = 1 THEN {0, 1} ELSE {}

\* the memory device an endpoint's uport names (cxl_endpoint_get_host())
ExtHost(e) == IF e = 2 THEN 0 ELSE 1

\* port->parent, from where the port was found
ExtParent(p) == IF p \in {2, 3} THEN 1 ELSE IF p = 1 THEN 0 ELSE p

\* the bus a port lies under: the walk up the parent pointers
RootOf(p) == ExtParent(ExtParent(p))

RECURSIVE SeqOf(_)
\* the ids of a set, ascending
SeqOf(S) == IF S = {} THEN << >> ELSE << SetMin(S) >> \o SeqOf(S \ {SetMin(S)})

\* sysfs_device_parse(): the ids of the matching child devices, each handed
\* to the add callback; dup says the first one is reported a second time
Enumerate(S, dup) ==
    IF dup /\ S # {} THEN SeqOf(S) \o << SetMin(S) >> ELSE SeqOf(S)

Has(list, id) == \E i \in DOMAIN list : list[i] = id

NoDup(list) == \A i, j \in DOMAIN list : list[i] = list[j] => i = j

\* pointers to objects; a bus or a memory device is named by its id, -1 is NULL
NullPtr == [id |-> -1, gen |-> -1]

NoScans == [ports |-> 0, endpoints |-> 0, decoders |-> 0, dports |-> 0]

\* the slot of a port (bus, switch port or endpoint) that does not exist
NoPort == [live |-> FALSE, gen |-> 0,
           ports_init |-> FALSE, endpoints_init |-> FALSE,
           decoders_init |-> FALSE, dports_init |-> FALSE,
           child_ports |-> << >>, endpoints |-> << >>, decoders |-> << >>,
           dports |-> << >>, nr_dports |-> 0, bus |-> -1, memdev |-> -1,
           scans |-> NoScans]

\* struct cxl_ctx after cxl_new(), holding one reference; scans counts the
\* enumerations of its two collections and flushes the writes of cxl_flush()
NoCtx == [refcount |-> 1, memdevs_init |-> FALSE, buses_init |-> FALSE,
          memdevs |-> << >>, buses |-> << >>, flushes |-> 0,
          scans |-> [memdevs |-> 0, buses |-> 0]]

\* the running state of one topology call: the library's objects, the
\* driver links of the external devices, and what the call did (nscan: its
\* enumerations, walked: it walked the buses, crashed: it read a freed
\* object and trapped, inval: the bus it invalidated, cached: the memdevs
\* whose cached endpoint lay under that bus when bus_invalidate() was
\* entered, before: the ports when it started to free them, io: the bind and
\* unbind requests of an enable or disable and the checks of the driver link
\* an enable made, freed: the objects a teardown freed, in order)
Topo(c, m, p, e) ==
    [ctx |-> c, memdev |-> m, port |-> p, ext |-> e, nscan |-> 0, walked |-> FALSE,
     ret |-> NullPtr, bus |-> -1, rc |-> 0, crashed |-> FALSE, inval |-> -1,
     cached |-> {}, before |-> p, io |-> << >>, freed |-> << >>]

Ptr(t, id) == [id |-> id, gen |-> t.port[id].gen]

\* the pointer names an object that has not been freed
LivePtr(t, ptr) ==
    /\ ptr.id \in PortIds
    /\ t.port[ptr.id].live
    /\ t.port[ptr.id].gen = ptr.gen

\* list_add(): the entry joins the list after the ones already listed, so
\* that list_top()/list_next() visit the entries in the order they were added
list_add(l, id) == Append(l, id)

\* cxl_port_init() on a calloc'ed port
NewPort(t) == [NoPort EXCEPT !.live = TRUE, !.gen = t.ctx.flushes]

\* an add_cxl_dport() that lacks the duplicate check, to compare against
add_cxl_dport_nodedup(t, parent, id) ==
    [t EXCEPT !.port[parent].nr_dports = @ + 1,
              !.port[parent].dports = list_add(@, id)]

\* an add_cxl_port() that lacks the duplicate check, to compare against
add_cxl_port_nodedup(t, parent, id) ==
    [t EXCEPT !.port[id] = NewPort(t),
              !.port[parent].child_ports = list_add(@, id)]

\* add_cxl_memdev(): a duplicate id is freed and the existing node returned
add_cxl_memdev(t, id) ==
    IF Has(t.ctx.memdevs, id) THEN t
    ELSE [t EXCEPT !.memdev[id] = [endpoint |-> NullPtr],
                   !.ctx.memdevs = list_add(@, id)]

add_cxl_bus(t, id) ==
    IF Has(t.ctx.buses, id) THEN t
    ELSE [t EXCEPT !.port[id] = NewPort(t), !.ctx.buses = list_add(@, id)]

add_cxl_port(t, parent, id) ==
    IF Has(t.port[parent].child_ports, id) THEN t
    ELSE [t EXCEPT !.port[id] = NewPort(t),
                   !.port[parent].child_ports = list_add(@, id)]

add_cxl_endpoint(t, parent, id) ==
    IF Has(t.port[parent].endpoints, id) THEN t
    ELSE [t EXCEPT !.port[id] = NewPort(t),
                   !.port[parent].endpoints = list_add(@, id)]

add_cxl_decoder(t, parent, id) ==
    IF Has(t.port[parent].decoders, id) THEN t
    ELSE [t EXCEPT !.port[parent].decoders = list_add(@, id)]

add_cxl_dport(t, parent, id) ==
    IF Has(t.port[parent].dports, id) THEN t
    ELSE [t EXCEPT !.port[parent].nr_dports = @ + 1,
                   !.port[parent].dports = list_add(@, id)]

\* a port tree for the traversals: w.parent[p] is the parent of port p, none
\* (-1) for the root, and a port's child_ports are its children in the order
\* discovery listed them, which is by id
NoParent == -1

\* no port: NULL; and the outcome of dereferencing it
NoPortRef == -1
PortCrash == -2

children_of(w, p) == {c \in DOMAIN w.parent : w.parent[c] = p}

child_ports_of(w, p) ==
    [i \in 1..Cardinality(children_of(w, p)) |->
        CHOOSE c \in children_of(w, p) :
            Cardinality({d \in children_of(w, p) : d < c}) = i - 1]

\* the place of port p in the list
IndexIn(list, p) == CHOOSE i \in DOMAIN list : list[i] = p

\* cxl_port_get_first(): the top of the port's child_ports
cxl_port_get_first(w, p) ==
    IF child_ports_of(w, p) = << >> THEN NoPortRef ELSE Head(child_ports_of(w, p))

\* a cxl_port_get_next() that finds no sibling, to compare against
cxl_port_get_next_none(w, p) == NoPortRef

\* cxl_port_get_next(): the port after p in its parent's child_ports; the
\* parent pointer is dereferenced unchecked
cxl_port_get_next(w, p) ==
    IF w.parent[p] = NoParent THEN PortCrash
    ELSE IF IndexIn(child_ports_of(w, w.parent[p]), p) < Len(child_ports_of(w, w.parent[p]))
    THEN child_ports_of(w, w.parent[p])[IndexIn(child_ports_of(w, w.parent[p]), p) + 1]
    ELSE NoPortRef

\* the while loop of cxl_port_get_next_all(): climb while the port has no
\* next sibling and its parent is neither NULL nor top
RECURSIVE next_all_climb(_, _, _)
next_all_climb(w, iter, top) ==
    IF cxl_port_get_next(w, iter) = PortCrash THEN PortCrash
    ELSE IF /\ cxl_port_get_next(w, iter) = NoPortRef
            /\ w.parent[iter] # NoParent
            /\ w.parent[iter] # top
    THEN next_all_climb(w, w.parent[iter], top)
    ELSE iter

\* cxl_port_get_next_all()
cxl_port_get_next_all(w, p, top) ==
    IF cxl_port_get_first(w, p) # NoPortRef THEN cxl_port_get_first(w, p)
    ELSE IF next_all_climb(w, p, top) = PortCrash THEN PortCrash
    ELSE cxl_port_get_next(w, next_all_climb(w, p, top))

\* the attributes add_cxl_memdev() reads and the other steps of it that can
\* fail (the two calloc(), stat(), strdup(), realpath() and strrchr())
MemdevAttrs == {"pmem/size", "ram/size", "payload_max", "label_storage_size",
                "serial", "numa_node", "firmware_version"}

MemdevSteps == {"path", "memdev", "stat", "dev_path", "host_path", "host",
                "firmware_version", "dev_buf"}

\* what one add_cxl_memdev() meets: the attributes sysfs_read_attr() can
\* read, the values they hold, and the step that fails (none: "")
MemdevEnv(readable, value, fails) ==
    [readable |-> readable, value |-> value, fails |-> fails]

\* no memdev: NULL
NullMemdev == [id |-> -1]

\* a serial read that leaves the calloc() zero when the attribute is
\* unreadable, to compare against
memdev_serial_zeroed(env) ==
    IF "serial" \notin env.readable THEN Zeros(8) ELSE env.value["serial"]

memdev_serial(env) ==
    IF "serial" \notin env.readable THEN ULLONG_MAX ELSE env.value["serial"]

memdev_numa_node(env) ==
    IF "numa_node" \notin env.readable THEN -1 ELSE env.value["numa_node"]

\* add_cxl_memdev() up to the duplicate check: the memdev it built, or NULL
\* from err_dev or err_read
read_memdev(env, id) ==
    IF env.fails \in {"path", "memdev", "stat"} THEN NullMemdev
    ELSE IF "pmem/size" \notin env.readable THEN NullMemdev
    ELSE IF "ram/size" \notin env.readable THEN NullMemdev
    ELSE IF "payload_max" \notin env.readable \/ env.value["payload_max"] < 0
         THEN NullMemdev
    ELSE IF \/ "label_storage_size" \notin env.readable
            \/ env.value["label_storage_size"] = ULLONG_MAX
         THEN NullMemdev
    ELSE IF env.fails \in {"dev_path", "host_path", "host"} THEN NullMemdev
    ELSE IF "firmware_version" \notin env.readable THEN NullMemdev
    ELSE IF env.fails \in {"firmware_version", "dev_buf"} THEN NullMemdev
    ELSE [id |-> id,
          pmem_size |-> env.value["pmem/size"],
          ram_size |-> env.value["ram/size"],
          payload_max |-> env.value["payload_max"],
          lsa_size |-> env.value["label_storage_size"],
          serial |-> memdev_serial(env),
          numa_node |-> memdev_numa_node(env),
          firmware_version |-> env.value["firmware_version"]]

\* the memdev of the list with the id, or NULL
memdev_dup(memdevs, id) ==
    IF \E k \in DOMAIN memdevs : memdevs[k].id = id
    THEN memdevs[CHOOSE k \in DOMAIN memdevs : memdevs[k].id = id]
    ELSE NullMemdev

\* add_cxl_memdev() with the attributes it reads: the context's list after
\* it and the memdev it returned
add_cxl_memdev_read(memdevs, env, id) ==
    IF read_memdev(env, id) = NullMemdev
    THEN [memdevs |-> memdevs, ret |-> NullMemdev]
    ELSE IF memdev_dup(memdevs, id) # NullMemdev
    THEN [memdevs |-> memdevs, ret |-> memdev_dup(memdevs, id)]
    ELSE [memdevs |-> list_add(memdevs, read_memdev(env, id)),
          ret |-> read_memdev(env, id)]

\* cxl_memdev_get_serial()
cxl_memdev_get_serial(m) == m.serial

\* cxl_memdev_get_numa_node()
cxl_memdev_get_numa_node(m) == m.numa_node

\* a decoder before the target loop: calloc'ed, its target list empty
NoDecoder == [targets |-> << >>, nr_targets |-> 0, parse_failed |-> FALSE]

\* a target is named by its place in the decoder's list; no target: NULL
NullTarget == 0

\* what the target loop reads: the ids of the target_list attribute in
\* strtok_r() order, the iteration whose calloc() fails (none: -1) and the
\* dports whose dev_path realpath() resolves
TargetEnv(ids, oom_at, resolves) ==
    [ids |-> ids, oom_at |-> oom_at, resolves |-> resolves]

\* a target loop body that leaves the position calloc() zeroed, to compare
\* against
add_target_unpositioned(d, did, i) ==
    [d EXCEPT !.targets = list_add(@, [id |-> did, position |-> 0])]

\* the body of the target loop once calloc() and realpath() succeeded
add_target(d, did, i) ==
    [d EXCEPT !.targets = list_add(@, [id |-> did, position |-> i])]

\* add_cxl_decoder(), the target loop from its i-th iteration: a failed
\* calloc() or realpath() breaks out, and the count is i either way
RECURSIVE add_targets(_, _, _)
add_targets(d, env, i) ==
    IF i >= Len(env.ids) THEN [d EXCEPT !.nr_targets = i]
    ELSE IF env.oom_at = i \/ env.ids[i + 1] \notin env.resolves
         THEN [d EXCEPT !.nr_targets = i, !.parse_failed = TRUE]
         ELSE add_targets(add_target(d, env.ids[i + 1], i), env, i + 1)

\* a cxl_target_get_first() that starts at the other end of the list, to
\* compare against
cxl_target_get_last(d) == Len(d.targets)

\* cxl_target_get_first(): list_top()
cxl_target_get_first(d) ==
    IF d.targets = << >> THEN NullTarget ELSE 1

\* cxl_target_get_next(): list_next()
cxl_target_get_next(d, target) ==
    IF target < Len(d.targets) THEN target + 1 ELSE NullTarget

\* cxl_decoder_get_target_by_position(): the first target of the traversal
\* that has the position
RECURSIVE target_by_position_from(_, _, _)
target_by_position_from(d, target, position) ==
    IF target = NullTarget THEN NullTarget
    ELSE IF d.targets[target].position = position THEN target
    ELSE target_by_position_from(d, cxl_target_get_next(d, target), position)

cxl_decoder_get_target_by_position(d, position) ==
    target_by_position_from(d, cxl_target_get_first(d), position)

RECURSIVE parse_memdevs(_, _)
RECURSIVE parse_buses(_, _)
RECURSIVE parse_ports(_, _, _)
RECURSIVE parse_endpoints(_, _, _)
RECURSIVE parse_decoders(_, _, _)
RECURSIVE parse_dports(_, _, _)

\* sysfs_device_parse() calling the add callback for each reported device
parse_memdevs(t, q) ==
    IF q = << >> THEN t ELSE parse_memdevs(add_cxl_memdev(t, Head(q)), Tail(q))

parse_buses(t, q) ==
    IF q = << >> THEN t ELSE parse_buses(add_cxl_bus(t, Head(q)), Tail(q))

parse_ports(t, p, q) ==
    IF q = << >> THEN t ELSE parse_ports(add_cxl_port(t, p, Head(q)), p, Tail(q))

parse_endpoints(t, p, q) ==
    IF q = << >> THEN t ELSE parse_endpoints(add_cxl_endpoint(t, p, Head(q)), p, Tail(q))

parse_decoders(t, p, q) ==
    IF q = << >> THEN t ELSE parse_decoders(add_cxl_decoder(t, p, Head(q)), p, Tail(q))

parse_dports(t, p, q) ==
    IF q = << >> THEN t ELSE parse_dports(add_cxl_dport(t, p, Head(q)), p, Tail(q))

cxl_memdevs_init(t, dup) ==
    IF t.ctx.memdevs_init THEN t
    ELSE parse_memdevs([t EXCEPT !.ctx.memdevs_init = TRUE,
                                 !.ctx.scans.memdevs = @ + 1, !.nscan = @ + 1],
                       Enumerate(MemIds, dup))

cxl_buses_init(t, dup) ==
    IF t.ctx.buses_init THEN t
    ELSE parse_buses([t EXCEPT !.ctx.buses_init = TRUE,
                               !.ctx.scans.buses = @ + 1, !.nscan = @ + 1],
                     Enumerate(BusIds, dup))

\* a cxl_ports_init() that does not look at the flag, to compare against
ports_init_unflagged(t, p, dup) ==
    parse_ports([t EXCEPT !.port[p].ports_init = TRUE,
                          !.port[p].scans.ports = @ + 1, !.nscan = @ + 1],
                p, Enumerate(ExtPorts(p), dup))

cxl_ports_init(t, p, dup) ==
    IF t.port[p].ports_init THEN t
    ELSE parse_ports([t EXCEPT !.port[p].ports_init = TRUE,
                               !.port[p].scans.ports = @ + 1, !.nscan = @ + 1],
                     p, Enumerate(ExtPorts(p), dup))

cxl_endpoints_init(t, p, dup) ==
    IF t.port[p].endpoints_init THEN t
    ELSE parse_endpoints([t EXCEPT !.port[p].endpoints_init = TRUE,
                                   !.port[p].scans.endpoints = @ + 1, !.nscan = @ + 1],
                         p, Enumerate(ExtEndpoints(p), dup))

cxl_decoders_init(t, p, dup) ==
    IF t.port[p].decoders_init THEN t
    ELSE parse_decoders([t EXCEPT !.port[p].decoders_init = TRUE,
                                  !.port[p].scans.decoders = @ + 1, !.nscan = @ + 1],
                        p, Enumerate(ExtDecoders(p), dup))

cxl_dports_init(t, p, dup) ==
    IF t.port[p].dports_init THEN t
    ELSE parse_dports([t EXCEPT !.port[p].dports_init = TRUE,
                                !.port[p].scans.dports = @ + 1, !.nscan = @ + 1],
                      p, Enumerate(ExtDports(p), dup))

\* the first endpoint in port p's list whose host is memdev m
EndpointHosting(t, p, m) ==
    IF \E i \in DOMAIN t.port[p].endpoints : ExtHost(t.port[p].endpoints[i]) = m
    THEN Ptr(t, t.port[p].endpoints[
             SetMin({i \in DOMAIN t.port[p].endpoints :
                        ExtHost(t.port[p].endpoints[i]) = m})])
    ELSE NullPtr

RECURSIVE cxl_port_find_endpoint(_, _, _, _)
RECURSIVE find_endpoint_ports(_, _, _, _)
RECURSIVE find_endpoint_at(_, _, _, _)
RECURSIVE find_endpoint_next(_, _, _, _)
RECURSIVE find_endpoint_from(_, _, _, _)

\* the loop of cxl_port_find_endpoint() over the child ports q still to visit
find_endpoint_ports(t, q, m, dup) ==
    IF q = << >> THEN [t EXCEPT !.ret = NullPtr]
    ELSE find_endpoint_at(cxl_endpoints_init(t, Head(q), dup), q, m, dup)

find_endpoint_at(t, q, m, dup) ==
    IF EndpointHosting(t, Head(q), m) # NullPtr
    THEN [t EXCEPT !.ret = EndpointHosting(t, Head(q), m)]
    ELSE find_endpoint_next(cxl_port_find_endpoint(t, Head(q), m, dup), q, m, dup)

find_endpoint_next(r, q, m, dup) ==
    IF r.ret # NullPtr THEN r ELSE find_endpoint_ports(r, Tail(q), m, dup)

find_endpoint_from(t, parent, m, dup) ==
    find_endpoint_ports(t, t.port[parent].child_ports, m, dup)

cxl_port_find_endpoint(t, parent, m, dup) ==
    find_endpoint_from(cxl_ports_init(t, parent, dup), parent, m, dup)

RECURSIVE get_endpoint_buses(_, _, _, _)
RECURSIVE get_endpoint_bus_next(_, _, _, _)

\* the cxl_bus_foreach() loop of cxl_memdev_get_endpoint()
get_endpoint_buses(t, q, m, dup) ==
    IF q = << >> THEN [t EXCEPT !.ret = NullPtr]
    ELSE get_endpoint_bus_next(cxl_port_find_endpoint(t, Head(q), m, dup), q, m, dup)

get_endpoint_bus_next(r, q, m, dup) ==
    IF r.ret # NullPtr THEN r ELSE get_endpoint_buses(r, Tail(q), m, dup)

get_endpoint_walk(t, m, dup) == get_endpoint_buses(t, t.ctx.buses, m, dup)

\* a cxl_memdev_get_endpoint() link that sets the memdev's side only, to
\* compare against
get_endpoint_link_oneway(r, m) ==
    IF r.ret = NullPtr THEN r
    ELSE [r EXCEPT !.memdev[m].endpoint = r.ret]

\* the found endpoint and the memdev are linked to each other, whatever
\* either was linked to
get_endpoint_link(r, m) ==
    IF r.ret = NullPtr THEN r
    ELSE [r EXCEPT !.memdev[m].endpoint = r.ret, !.port[r.ret.id].memdev = m]

cxl_memdev_get_endpoint(t, m, dup) ==
    IF t.memdev[m].endpoint # NullPtr THEN [t EXCEPT !.ret = t.memdev[m].endpoint]
    ELSE IF ~t.ext.mem[m] THEN [t EXCEPT !.ret = NullPtr]
    ELSE get_endpoint_link(
             get_endpoint_walk(cxl_buses_init([t EXCEPT !.walked = TRUE], dup), m, dup), m)

\* what reading a freed port can give: a trap, no driver link, or the old
\* contents
UafOutcomes == {"segv", "null", "stale"}

\* cxl_port_get_bus(): NULL for a port without a driver; the bus is cached
\* on the root port
cxl_port_get_bus(t, ptr, uaf) ==
    IF ~LivePtr(t, ptr)
    THEN [t EXCEPT !.crashed = (uaf = "segv"),
                   !.bus = IF uaf = "stale" THEN RootOf(ptr.id) ELSE -1]
    ELSE IF ~t.ext.port[ptr.id] THEN [t EXCEPT !.bus = -1]
    ELSE IF t.port[ptr.id].bus # -1 THEN [t EXCEPT !.bus = t.port[ptr.id].bus]
    ELSE [t EXCEPT !.port[RootOf(ptr.id)].bus = RootOf(ptr.id),
                   !.bus = RootOf(ptr.id)]

get_bus_of(r, uaf) ==
    IF r.ret = NullPtr THEN [r EXCEPT !.bus = -1] ELSE cxl_port_get_bus(r, r.ret, uaf)

cxl_memdev_get_bus(t, m, dup, uaf) ==
    get_bus_of(cxl_memdev_get_endpoint(t, m, dup), uaf)

\* the memdev whose name is endpoint e's host, first in the list
MemdevHosting(t, e) ==
    IF \E i \in DOMAIN t.ctx.memdevs : t.ctx.memdevs[i] = ExtHost(e)
    THEN ExtHost(e) ELSE -1

endpoint_get_memdev_link(t, e) ==
    IF MemdevHosting(t, e) = -1 THEN [t EXCEPT !.rc = -1]
    ELSE [t EXCEPT !.port[e].memdev = MemdevHosting(t, e),
                   !.memdev[MemdevHosting(t, e)].endpoint = Ptr(t, e),
                   !.rc = MemdevHosting(t, e)]

\* cxl_endpoint_get_memdev(): rc carries the memdev returned, -1 for NULL
cxl_endpoint_get_memdev(t, e, dup) ==
    IF t.port[e].memdev # -1 THEN [t EXCEPT !.rc = t.port[e].memdev]
    ELSE IF ~t.ext.port[e] THEN [t EXCEPT !.rc = -1]
    ELSE endpoint_get_memdev_link(cxl_memdevs_init(t, dup), e)

RECURSIVE free_ports(_, _)
\* free_port() / free_endpoint() on each port of q: its child ports and
\* endpoints are freed with it
free_ports(pf, q) ==
    IF q = << >> THEN pf
    ELSE free_ports([free_ports(pf, pf[Head(q)].child_ports \o pf[Head(q)].endpoints)
                        EXCEPT ![Head(q)] = NoPort],
                    Tail(q))

RECURSIVE invalidate_memdevs(_, _, _, _, _)
RECURSIVE invalidate_memdev(_, _, _, _, _)

\* the cxl_memdev_foreach() loop of bus_invalidate()
invalidate_memdevs(t, q, bus, dup, uaf) ==
    IF q = << >> THEN t
    ELSE invalidate_memdev(cxl_memdev_get_bus(t, Head(q), dup, uaf), q, bus, dup, uaf)

invalidate_memdev(r, q, bus, dup, uaf) ==
    invalidate_memdevs(IF r.bus = bus
                       THEN [r EXCEPT !.memdev[Head(q)].endpoint = NullPtr]
                       ELSE r,
                       Tail(q), bus, dup, uaf)

invalidate_caches(t, bus, dup, uaf) ==
    invalidate_memdevs(t, t.ctx.memdevs, bus, dup, uaf)

\* a path that was not resolved: realpath() returns NULL, or an absolute
\* path, which is not empty
NullPath == << >>

\* strstr(haystack, needle): the offset of the first occurrence, -1 for NULL
strstr(haystack, needle) ==
    IF \E i \in 0..(Len(haystack) - Len(needle)) :
           SubSeq(haystack, i + 1, i + Len(needle)) = needle
    THEN SetMin({i \in 0..(Len(haystack) - Len(needle)) :
                    SubSeq(haystack, i + 1, i + Len(needle)) = needle})
    ELSE -1

\* a maps_memdev that falls back to the device path when the physical node
\* does not match, to compare against
maps_memdev_either(host_path, dev_path, phys_path) ==
    \/ phys_path # NullPath /\ strstr(host_path, phys_path) # -1
    \/ strstr(host_path, dev_path) # -1

\* cxl_dport_maps_memdev()
cxl_dport_maps_memdev(host_path, dev_path, phys_path) ==
    IF phys_path # NullPath THEN strstr(host_path, phys_path) # -1
    ELSE strstr(host_path, dev_path) # -1

\* cxl_target_maps_memdev()
cxl_target_maps_memdev(host_path, dev_path, phys_path) ==
    IF phys_path # NullPath THEN strstr(host_path, phys_path) # -1
    ELSE strstr(host_path, dev_path) # -1

RECURSIVE free_order(_, _)
\* the ports that free_bus() / free_port() / free_endpoint() on each port of q
\* release, in the order of their free() calls: a port after its child ports
\* and its endpoints
free_order(pf, q) ==
    IF q = << >> THEN << >>
    ELSE free_order(pf, pf[Head(q)].child_ports \o pf[Head(q)].endpoints)
             \o << Head(q) >> \o free_order(pf, Tail(q))

Freed(kind, id) == [kind |-> kind, id |-> id]

\* cxl_ref()
cxl_ref(t) == [t EXCEPT !.ctx.refcount = @ + 1]

\* the list_for_each_safe() loop of cxl_unref() over the memdevs
free_memdevs(t) ==
    [t EXCEPT !.freed = @ \o [i \in DOMAIN t.ctx.memdevs |->
                                 Freed("memdev", t.ctx.memdevs[i])],
              !.ctx.memdevs = << >>,
              !.memdev = [m \in MemIds |-> [endpoint |-> NullPtr]]]

\* the list_for_each_safe() loop of cxl_unref() over the buses, which free
\* the ports in this order
free_buses(t, order) ==
    [t EXCEPT !.freed = @ \o [i \in DOMAIN order |-> Freed("port", order[i])],
              !.port = free_ports(t.port, t.ctx.buses),
              !.ctx.buses = << >>]

\* the context's own resources go: kmod_unref() and free(ctx)
free_ctx(t) ==
    [t EXCEPT !.freed = @ \o << Freed("kmod", 0), Freed("ctx", 0) >>,
              !.ctx = [NoCtx EXCEPT !.refcount = 0]]

ctx_teardown(u) ==
    free_ctx(free_buses(free_memdevs(u), free_order(u.port, u.ctx.buses)))

\* a cxl_unref() that tears down while a reference remains, to compare
\* against
unref_early(u) == IF u.ctx.refcount > 1 THEN u ELSE ctx_teardown(u)

\* cxl_unref() after the decrement
unref_released(u) == IF u.ctx.refcount > 0 THEN u ELSE ctx_teardown(u)

cxl_unref(t) == unref_released([t EXCEPT !.ctx.refcount = @ - 1])

\* a bus_invalidate() that drops the decoders of the bus with its child
\* ports, to compare against
invalidate_ports_decoders(t, bus) ==
    [t EXCEPT !.port = [free_ports(t.port, t.port[bus].child_ports)
                           EXCEPT ![bus].child_ports = << >>,
                                  ![bus].ports_init = FALSE,
                                  ![bus].scans.ports = 0,
                                  ![bus].decoders = << >>,
                                  ![bus].decoders_init = FALSE],
              !.ctx.flushes = @ + 1,
              !.inval = bus,
              !.before = t.port]

\* the child ports of the bus are freed, its flag reset, and cxl_flush()
invalidate_ports(t, bus) ==
    [t EXCEPT !.port = [free_ports(t.port, t.port[bus].child_ports)
                           EXCEPT ![bus].child_ports = << >>,
                                  ![bus].ports_init = FALSE,
                                  ![bus].scans.ports = 0],
              !.ctx.flushes = @ + 1,
              !.inval = bus,
              !.before = t.port]

\* the memdevs whose cached endpoint lies under the bus
CachedUnder(t, bus) ==
    {m \in MemIds : /\ t.memdev[m].endpoint # NullPtr
                    /\ RootOf(t.memdev[m].endpoint.id) = bus}

bus_invalidate(t, bus, dup, uaf) ==
    invalidate_ports(
        invalidate_caches(cxl_memdevs_init([t EXCEPT !.cached = CachedUnder(t, bus)], dup),
                          bus, dup, uaf),
        bus)

\* util_unbind() / util_bind(): the driver link goes or comes when the
\* kernel accepts the write
util_unbind_memdev(t, m, ok) ==
    [t EXCEPT !.ext.mem[m] = @ /\ ~ok, !.io = Append(@, "unbind")]

util_unbind_port(t, p, ok) ==
    [t EXCEPT !.ext.port[p] = @ /\ ~ok, !.io = Append(@, "unbind")]

util_bind_memdev(t, m, ok) ==
    [t EXCEPT !.ext.mem[m] = @ \/ ok, !.io = Append(@, "bind")]

util_bind_port(t, p, ok) ==
    [t EXCEPT !.ext.port[p] = @ \/ ok, !.io = Append(@, "bind")]

\* cxl_memdev_is_enabled() / cxl_port_is_enabled() as an enable calls it: the
\* driver link is looked up
is_enabled(t) == [t EXCEPT !.io = Append(@, "is_enabled")]

\* a cxl_memdev_disable_invalidate() that invalidates without looking at the
\* driver link after the unbind, to compare against
memdev_disable_unchecked(u, m, dup, uaf) ==
    [bus_invalidate(u, u.bus, dup, uaf) EXCEPT !.rc = 0]

memdev_disable_unbound(u, m, dup, uaf) ==
    IF u.ext.mem[m] THEN [u EXCEPT !.rc = -EBUSY]
    ELSE [bus_invalidate(u, u.bus, dup, uaf) EXCEPT !.rc = 0]

memdev_disable_bus(b, m, ok, dup, uaf) ==
    IF b.bus = -1 THEN [b EXCEPT !.rc = -ENXIO]
    ELSE memdev_disable_unbound(util_unbind_memdev(b, m, ok), m, dup, uaf)

cxl_memdev_disable_invalidate(t, m, ok, dup, uaf) ==
    IF ~t.ext.mem[m] THEN [t EXCEPT !.rc = 0]
    ELSE memdev_disable_bus(cxl_memdev_get_bus(t, m, dup, uaf), m, ok, dup, uaf)

\* a cxl_memdev_enable() that takes the bind to have worked, to compare
\* against
memdev_enable_unchecked(u, m) == [u EXCEPT !.rc = 0]

\* a cxl_memdev_enable() that binds whatever the driver link, to compare
\* against
memdev_enable_always(t, m, ok) ==
    [is_enabled(util_bind_memdev(is_enabled(t), m, ok))
        EXCEPT !.rc = IF t.ext.mem[m] \/ ok THEN 0 ELSE -ENXIO]

\* cxl_memdev_enable() after util_bind()
memdev_enable_bound(u, m) ==
    [is_enabled(u) EXCEPT !.rc = IF u.ext.mem[m] THEN 0 ELSE -ENXIO]

cxl_memdev_enable(t, m, ok) ==
    IF t.ext.mem[m] THEN [is_enabled(t) EXCEPT !.rc = 0]
    ELSE memdev_enable_bound(util_bind_memdev(is_enabled(t), m, ok), m)

port_disable_unbound(u, p, dup, uaf) ==
    IF u.ext.port[p] THEN [u EXCEPT !.rc = -EBUSY]
    ELSE [bus_invalidate(u, u.bus, dup, uaf) EXCEPT !.rc = 0]

\* a cxl_port_disable_invalidate() that reports success for a port without a
\* bus, to compare against
port_disable_nobus(b, p, ok, dup, uaf) ==
    IF p \in BusIds THEN [b EXCEPT !.rc = -EINVAL]
    ELSE IF b.bus = -1 THEN [b EXCEPT !.rc = 0]
    ELSE port_disable_unbound(util_unbind_port(b, p, ok), p, dup, uaf)

\* a cxl_port_disable_invalidate() that lets a root port through, to compare
\* against
port_disable_anyport(b, p, ok, dup, uaf) ==
    IF b.bus = -1 THEN [b EXCEPT !.rc = -ENXIO]
    ELSE port_disable_unbound(util_unbind_port(b, p, ok), p, dup, uaf)

port_disable_bus(b, p, ok, dup, uaf) ==
    IF p \in BusIds THEN [b EXCEPT !.rc = -EINVAL]
    ELSE IF b.bus = -1 THEN [b EXCEPT !.rc = -ENXIO]
    ELSE port_disable_unbound(util_unbind_port(b, p, ok), p, dup, uaf)

cxl_port_disable_invalidate(t, p, ok, dup, uaf) ==
    port_disable_bus(cxl_port_get_bus(t, Ptr(t, p), uaf), p, ok, dup, uaf)

\* cxl_port_enable() after util_bind()
port_enable_bound(u, p) ==
    [is_enabled(u) EXCEPT !.rc = IF u.ext.port[p] THEN 0 ELSE -ENXIO]

cxl_port_enable(t, p, ok) ==
    IF t.ext.port[p] THEN [is_enabled(t) EXCEPT !.rc = 0]
    ELSE port_enable_bound(util_bind_port(is_enabled(t), p, ok), p)

(***************************************************************************)
(* State.                                                                  *)
(*   dev   the memory device commands are built for: payload_max and the   *)
(*         capability table its driver reports                             *)
(*   cmd   the command the caller holds (NoCmd: none)                      *)
(*   heap  the blocks allocated since the command's build began            *)
(*   call  the last library call: its arguments, its result, and what it   *)
(*         issued (allocations, frees, ioctls, table searches, writes)     *)
(*   ncalls the number of calls made on cmd since it was built             *)
(*   label the device's label storage area                                 *)
(*   rx    the send commands the device received in the label transfer     *)
(*   lsa   the frame of lsa_op(): its arguments, its position, the         *)
(*         transactions it made, its return value; nops counts transfers   *)
(***************************************************************************)
VARIABLES dev, cmd, heap, call, ncalls, label, rx, lsa, nops,
          ctx, memdev, port, ext, tcall, snap, life, maps, dec, made, walk

vars == << dev, cmd, heap, call, ncalls, label, rx, lsa, nops,
          ctx, memdev, port, ext, tcall, snap, life, maps, dec, made, walk >>

cmdVars == << dev, cmd, heap, call, ncalls, label, rx, lsa, nops >>

topoVars == << ctx, memdev, port, ext, tcall, snap, life, maps, dec, made, walk >>

\* what the specifications of single functions hold: their inputs and results
pureVars == << maps, dec, made, walk >>

\* the last topology call: what was called on what, what it returned (ret a
\* port or endpoint, rc a status, an id or a count), and what it did
\* (flushes: its writes of the flush attribute, io: its bind and unbind
\* requests and an enable's checks of the driver link)
NoTCall == [fn |-> "", arg |-> -1, ret |-> NullPtr, rc |-> 0, nscan |-> 0,
            walked |-> FALSE, dup |-> FALSE, outcome |-> "ok", inval |-> -1,
            cached |-> {}, flushes |-> 0, io |-> << >>]

\* one collection of a port under the bus last invalidated, as it was when
\* the invalidation freed the ports
NoSnap == [bus |-> -1, port |-> -1, kind |-> "", ids |-> << >>]

\* a memdev's host path, a dport or target with its two paths, and the last
\* maps_memdev call on them with what it returned
NoMaps == [host_path |-> NullPath, dev_path |-> NullPath, phys_path |-> NullPath,
           fn |-> "", ret |-> FALSE]

\* a decoder under construction: the ids its target_list attribute names,
\* the allocation that fails (none: -1), the dports whose path resolves, the
\* decoder add_cxl_decoder() left, and the last traversal or lookup on it
\* (cur: the target a traversal stands on, seen: the positions it visited,
\* pos: the position looked up, found: the target the lookup returned)
NoDec == [ids |-> << >>, oom_at |-> -1, resolves |-> {}, built |-> FALSE,
          decoder |-> NoDecoder, fn |-> "", cur |-> NullTarget, seen |-> << >>,
          pos |-> -1, found |-> NullTarget]

\* one add_cxl_memdev(): the context's list before it, the id and what the
\* call meets, then the list after it, the memdev returned, and what the
\* last accessor on that memdev returned
NoMade == [before |-> << >>, id |-> 0, env |-> MemdevEnv({}, << >>, ""),
           fn |-> "", memdevs |-> << >>, ret |-> NullMemdev, got |-> << >>]

\* one cxl_port_foreach_all(top, port): the tree, top, the port the loop
\* stands on and the ports its body has run for, in order
NoWalk == [parent |-> << >>, top |-> 0, fn |-> "", port |-> NoPortRef, seen |-> << >>]

\* the history of the context's references: the cxl_ref() and cxl_unref()
\* calls made, the teardowns run and what they freed, in order
NoLife == [refs |-> 0, unrefs |-> 0, released |-> 0, freed |-> << >>]

\* the context after cxl_new(), every device bound to its driver
TopoFresh ==
    /\ life = NoLife
    /\ maps = NoMaps
    /\ dec = NoDec
    /\ made = NoMade
    /\ walk = NoWalk
    /\ ctx = NoCtx
    /\ memdev = [m \in MemIds |-> [endpoint |-> NullPtr]]
    /\ port = [p \in PortIds |-> NoPort]
    /\ ext = [mem |-> [m \in MemIds |-> TRUE], port |-> [p \in PortIds |-> TRUE]]
    /\ tcall = NoTCall
    /\ snap = NoSnap

\* a label area as the device holds it before any write
Ones(n) == [i \in 1..n |-> 1]

\* the running state of a library call entered with command c in this state
Enter(c, h) == [St(c, h) EXCEPT !.label = label]

NoCall == [fn |-> "none", id |-> "NONE", size |-> 0, hasbuf |-> FALSE,
           rc |-> 0, isnull |-> FALSE, outcome |-> "return", errno |-> 0,
           log |-> << >>, ret |-> 0, parsed |-> FALSE]

\* the caller's view after a library call that returned state s
Commit(s, c) ==
    /\ cmd' = s.cmd
    /\ heap' = s.heap
    /\ label' = s.label
    /\ call' = [c EXCEPT !.rc = s.rc, !.errno = s.errno, !.log = s.log]

\* a builder's result: the command, or NULL
Built(s, fn, id, n) ==
    Commit(s, [NoCall EXCEPT !.fn = fn, !.id = id, !.size = n, !.isnull = s.rc # 0])

\* the process is running: no earlier call ran into undefined behaviour
Returned == call.outcome = "return"

\* lsa_size of the devices of SpecCmd
CmdLsaSize == {3}

InitCmd ==
    /\ dev \in [payload_max : CmdPayloadMax, caps : CapTables, lsa_size : CmdLsaSize]
    /\ cmd = NoCmd
    /\ heap = << >>
    /\ call = NoCall
    /\ ncalls = 0
    /\ label = Ones(dev.lsa_size)
    /\ rx = << >>
    /\ lsa = NoLsa
    /\ nops = 0
    /\ TopoFresh

\* a build starts with no command held
CanBuild ==
    /\ Returned
    /\ cmd.refcount = 0
    /\ ncalls' = 0
    /\ UNCHANGED << dev, rx, lsa, nops, topoVars >>

NewIdentify ==
    /\ CanBuild
    /\ \E env \in BuildEnvs :
          Built(cxl_cmd_new_generic(Enter(NoCmd, << >>), "IDENTIFY", env, dev.caps),
                "cxl_cmd_new_identify", "IDENTIFY", 0)

NewGetHealthInfo ==
    /\ CanBuild
    /\ \E env \in BuildEnvs :
          Built(cxl_cmd_new_generic(Enter(NoCmd, << >>), "GET_HEALTH_INFO", env, dev.caps),
                "cxl_cmd_new_get_health_info", "GET_HEALTH_INFO", 0)

NewGetPartition ==
    /\ CanBuild
    /\ \E env \in BuildEnvs :
          Built(cxl_cmd_new_generic(Enter(NoCmd, << >>), "GET_PARTITION_INFO", env,
                                    dev.caps),
                "cxl_cmd_new_get_partition", "GET_PARTITION_INFO", 0)

\* opcodes handed to cxl_cmd_new_raw(): 0 is reserved
RawOpcodes == {0, 1}

NewRaw ==
    /\ CanBuild
    /\ \E env \in BuildEnvs, opcode \in RawOpcodes :
          Built(cxl_cmd_new_raw(Enter(NoCmd, << >>), opcode, env, dev.caps),
                "cxl_cmd_new_raw", "RAW", opcode)

\* label ranges and data handed to the label builders of SpecCmd
CmdLabelOffsets == {0, 1}
CmdLabelLens == {2}
CmdLabelData == << 5, 5 >>

NewReadLabel ==
    /\ CanBuild
    /\ \E env \in BuildEnvs, off \in CmdLabelOffsets, len \in CmdLabelLens :
          Built(cxl_cmd_new_read_label(Enter(NoCmd, << >>), Wide(off), len, env, dev.caps),
                "cxl_cmd_new_read_label", "GET_LSA", len)

NewWriteLabel ==
    /\ CanBuild
    /\ \E env \in BuildEnvs, off \in CmdLabelOffsets, len \in CmdLabelLens :
          Built(cxl_cmd_new_write_label(Enter(NoCmd, << >>), CmdLabelData, Wide(off), len,
                                        env, dev.caps, dev.payload_max),
                "cxl_cmd_new_write_label", "SET_LSA", len)

\* what dereferencing the NULL command can do in cxl_cmd_new_set_partition():
\* the load of cmd->input_payload traps, or it yields some pointer and the
\* store through it lands somewhere
UBOutcomes == {"segv", "wild_write"}

\* sizes (in bytes) handed to cxl_cmd_new_set_partition()
SetPartitionSizes == {0, CXL_CAPACITY_MULTIPLIER}

\* cxl_cmd_new_set_partition() after the generic build: its result is used
\* without a NULL check
new_set_partition_fill(g, volatile_size) ==
    IF g.rc # 0
    THEN \E o \in UBOutcomes :
            Commit(IF o = "wild_write" THEN Logged(g, Ev("write", "wild", 1, 0)) ELSE g,
                   [NoCall EXCEPT !.fn = "cxl_cmd_new_set_partition",
                             !.id = "SET_PARTITION_INFO",
                             !.isnull = TRUE, !.outcome = o])
    ELSE Built(Logged([g EXCEPT !.cmd.inbuf =
                           << volatile_size \div CXL_CAPACITY_MULTIPLIER >>
                           \o Zeros(g.cmd.send.in_size - 8)],
                      Ev("write", "in", 1, 0)),
               "cxl_cmd_new_set_partition", "SET_PARTITION_INFO", 0)

NewSetPartition ==
    /\ CanBuild
    /\ \E env \in BuildEnvs, volatile_size \in SetPartitionSizes :
          new_set_partition_fill(
              cxl_cmd_new_generic(Enter(NoCmd, << >>), "SET_PARTITION_INFO", env, dev.caps),
              volatile_size)

\* a call on the command the caller holds
CanCall ==
    /\ Returned
    /\ cmd.refcount > 0
    /\ ncalls < MaxCalls
    /\ ncalls' = ncalls + 1
    /\ UNCHANGED << dev, rx, lsa, nops, topoVars >>

\* sizes handed to cxl_cmd_set_{input,output}_payload()
PayloadSizes == {-1, 1} \cup (dev.payload_max .. dev.payload_max + MaxOver)

\* the caller's buffer of cxl_cmd_set_{input,output}_payload()
UserData(size) == [i \in 1..Max(size, 0) |-> 9]

SetInputPayload ==
    /\ CanCall
    /\ Len(heap) < MaxHeap
    /\ \E size \in PayloadSizes, hasbuf \in BOOLEAN, oom \in BOOLEAN :
          Commit(cxl_cmd_set_input_payload(Enter(cmd, heap), hasbuf, UserData(size), size,
                                           dev.payload_max, oom),
                 [NoCall EXCEPT !.fn = "cxl_cmd_set_input_payload", !.id = cmd.send.id,
                                !.size = size, !.hasbuf = hasbuf])

SetOutputPayload ==
    /\ CanCall
    /\ Len(heap) < MaxHeap
    /\ \E size \in PayloadSizes, hasbuf \in BOOLEAN, oom \in BOOLEAN :
          Commit(cxl_cmd_set_output_payload(Enter(cmd, heap), hasbuf, UserData(size), size,
                                            dev.payload_max, oom),
                 [NoCall EXCEPT !.fn = "cxl_cmd_set_output_payload", !.id = cmd.send.id,
                                !.size = size, !.hasbuf = hasbuf])

Submit ==
    /\ CanCall
    /\ \E denv \in DoEnvs :
          Commit(cxl_cmd_submit(Enter(cmd, heap), denv, dev.caps),
                 [NoCall EXCEPT !.fn = "cxl_cmd_submit", !.id = cmd.send.id])

\* cxl_cmd_ref()
CmdRef ==
    /\ CanCall
    /\ cmd.refcount < MaxRef
    /\ cmd' = [cmd EXCEPT !.refcount = @ + 1]
    /\ call' = [NoCall EXCEPT !.fn = "cxl_cmd_ref", !.id = cmd.send.id]
    /\ UNCHANGED << heap, label >>

CmdUnref ==
    /\ CanCall
    /\ Commit(cxl_cmd_unref(Enter(cmd, heap)),
              [NoCall EXCEPT !.fn = "cxl_cmd_unref", !.id = cmd.send.id])

NextCmd ==
    \/ NewIdentify
    \/ NewGetHealthInfo
    \/ NewGetPartition
    \/ NewSetPartition
    \/ NewReadLabel
    \/ NewWriteLabel
    \/ NewRaw
    \/ SetInputPayload
    \/ SetOutputPayload
    \/ Submit
    \/ CmdRef
    \/ CmdUnref

SpecCmd == InitCmd /\ [][NextCmd]_vars

(***************************************************************************)
(* Output accessors: a command is built for a device that supports every   *)
(* command, submitted, and read with the accessors at any point.  The      *)
(* device answers a send with one of a few payloads.                       *)
(***************************************************************************)
\* raw capacity fields as the device writes them (little-endian): 0, 4, 2^36,
\* 2^36 + 4, 2^64 - 1 and 0x0807060504030201
RawCaps ==
    << Zeros(8),
       << 4, 0, 0, 0, 0, 0, 0, 0 >>,
       << 0, 0, 0, 0, 16, 0, 0, 0 >>,
       << 4, 0, 0, 0, 16, 0, 0, 0 >>,
       ULLONG_MAX,
       << 1, 2, 3, 4, 5, 6, 7, 8 >> >>

RawCap(k) == RawCaps[((k - 1) % Len(RawCaps)) + 1]

\* struct cxl_cmd_identify with capacities RawCap(k) .. RawCap(k + 3) and
\* lsa_size 3
IdentifyAnswer(k) ==
    [i \in 1..16 |-> 70] \o RawCap(k) \o RawCap(k + 1) \o RawCap(k + 2) \o RawCap(k + 3)
    \o Zeros(8) \o << 3, 0, 0, 0 >> \o Zeros(7)

\* struct cxl_cmd_get_partition
PartitionAnswer(k) == RawCap(k) \o RawCap(k + 1) \o RawCap(k + 2) \o RawCap(k + 3)

\* struct cxl_cmd_get_health_info: a healthy device, one that needs
\* maintenance and implements neither life_used nor temperature, and one
\* whose counters have their top bit set
HealthAnswers ==
    { << 0, 0, 0, 10, 30, 0 >> \o << 1, 0, 0, 0 >> \o Zeros(8),
      << 5, 1, 37, 255, 255, 255 >> \o << 0, 1, 0, 0 >> \o << 7, 0, 0, 0 >> \o Zeros(4),
      << 2, 9, 22, 99, 0, 128 >> \o << 234, 255, 255, 255 >> \o Zeros(4)
          \o << 255, 255, 255, 127 >> }

\* the payloads the device may answer a command with
DeviceAnswers(id) ==
    CASE id = "IDENTIFY" -> {IdentifyAnswer(k) : k \in 1..Len(RawCaps)}
      [] id = "GET_PARTITION_INFO" -> {PartitionAnswer(k) : k \in 1..Len(RawCaps)}
      [] id = "GET_HEALTH_INFO" -> HealthAnswers
      [] OTHER -> {<< >>}

\* what the environment does to a submit of SpecAcc
AccEnvs(id) ==
    {[DoOk EXCEPT !.data = d] : d \in DeviceAnswers(id)}
    \cup {[DoOk EXCEPT !.retval = 2], [DoOk EXCEPT !.node_ok = FALSE]}

InitAcc ==
    /\ dev = [payload_max |-> 128,
              caps |-> << CapInfo("IDENTIFY"), CapInfo("RAW"),
                          CapInfo("GET_PARTITION_INFO"), CapInfo("GET_LSA"),
                          CapInfo("GET_HEALTH_INFO"), CapInfo("SET_PARTITION_INFO"),
                          CapInfo("SET_LSA") >>,
              lsa_size |-> 3]
    /\ cmd = NoCmd
    /\ heap = << >>
    /\ call = NoCall
    /\ ncalls = 0
    /\ label = Ones(dev.lsa_size)
    /\ rx = << >>
    /\ lsa = NoLsa
    /\ nops = 0
    /\ TopoFresh

AccSubmit ==
    /\ CanCall
    /\ \E denv \in AccEnvs(cmd.send.id) :
          Commit(cxl_cmd_submit(Enter(cmd, heap), denv, dev.caps),
                 [NoCall EXCEPT !.fn = "cxl_cmd_submit", !.id = cmd.send.id])

IdentifyFns ==
    {"cxl_cmd_identify_get_total_size", "cxl_cmd_identify_get_volatile_only_size",
     "cxl_cmd_identify_get_persistent_only_size", "cxl_cmd_identify_get_partition_align",
     "cxl_cmd_identify_get_label_size", "cxl_cmd_identify_get_fw_rev"}

PartitionFns ==
    {"cxl_cmd_partition_get_active_volatile_size",
     "cxl_cmd_partition_get_active_persistent_size",
     "cxl_cmd_partition_get_next_volatile_size",
     "cxl_cmd_partition_get_next_persistent_size"}

\* the health accessors modelled; the other media and ext accessors are the
\* same macros with other constants
HealthFns ==
    {"cxl_cmd_health_info_get_maintenance_needed",
     "cxl_cmd_health_info_get_performance_degraded",
     "cxl_cmd_health_info_get_hw_replacement_needed",
     "cxl_cmd_health_info_get_media_normal",
     "cxl_cmd_health_info_get_media_data_loss_imminent",
     "cxl_cmd_health_info_get_ext_life_used_warning",
     "cxl_cmd_health_info_get_ext_temperature_critical",
     "cxl_cmd_health_info_get_ext_corrected_persistent_warning",
     "cxl_cmd_health_info_get_life_used",
     "cxl_cmd_health_info_get_temperature",
     "cxl_cmd_health_info_get_dirty_shutdowns",
     "cxl_cmd_health_info_get_volatile_errors",
     "cxl_cmd_health_info_get_pmem_errors"}

ReadLabelFns == {"cxl_cmd_read_label_get_payload"}

\* lengths handed to cxl_cmd_read_label_get_payload()
GetPayloadLengths == {1, 3}

\* the result of accessor fn on the command of s
Accessor(fn, s) ==
    CASE fn = "cxl_cmd_identify_get_total_size" -> cxl_cmd_identify_get_total_size(s)
      [] fn = "cxl_cmd_identify_get_volatile_only_size" ->
             cxl_cmd_identify_get_volatile_only_size(s)
      [] fn = "cxl_cmd_identify_get_persistent_only_size" ->
             cxl_cmd_identify_get_persistent_only_size(s)
      [] fn = "cxl_cmd_identify_get_partition_align" ->
             cxl_cmd_identify_get_partition_align(s)
      [] fn = "cxl_cmd_identify_get_label_size" -> cxl_cmd_identify_get_label_size(s)
      [] fn = "cxl_cmd_identify_get_fw_rev" -> cxl_cmd_identify_get_fw_rev(s)
      [] fn = "cxl_cmd_partition_get_active_volatile_size" ->
             cxl_cmd_partition_get_active_volatile_size(s)
      [] fn = "cxl_cmd_partition_get_active_persistent_size" ->
             cxl_cmd_partition_get_active_persistent_size(s)
      [] fn = "cxl_cmd_partition_get_next_volatile_size" ->
             cxl_cmd_partition_get_next_volatile_size(s)
      [] fn = "cxl_cmd_partition_get_next_persistent_size" ->
             cxl_cmd_partition_get_next_persistent_size(s)
      [] fn = "cxl_cmd_health_info_get_maintenance_needed" ->
             cmd_get_field_u8_mask(s, "GET_HEALTH_INFO", 0, 1)
      [] fn = "cxl_cmd_health_info_get_performance_degraded" ->
             cmd_get_field_u8_mask(s, "GET_HEALTH_INFO", 0, 2)
      [] fn = "cxl_cmd_health_info_get_hw_replacement_needed" ->
             cmd_get_field_u8_mask(s, "GET_HEALTH_INFO", 0, 4)
      [] fn = "cxl_cmd_health_info_get_media_normal" ->
             cmd_health_check_media_field(s, 0)
      [] fn = "cxl_cmd_health_info_get_media_data_loss_imminent" ->
             cmd_health_check_media_field(s, 9)
      [] fn = "cxl_cmd_health_info_get_ext_life_used_warning" ->
             cmd_health_check_ext_field(s, 0, 2, 1)
      [] fn = "cxl_cmd_health_info_get_ext_temperature_critical" ->
             cmd_health_check_ext_field(s, 2, 2, 2)
      [] fn = "cxl_cmd_health_info_get_ext_corrected_persistent_warning" ->
             cmd_health_check_ext_field(s, 5, 1, 1)
      [] fn = "cxl_cmd_health_info_get_life_used" -> cxl_cmd_health_info_get_life_used(s)
      [] fn = "cxl_cmd_health_info_get_temperature" ->
             cxl_cmd_health_info_get_temperature(s)
      [] fn = "cxl_cmd_health_info_get_dirty_shutdowns" ->
             cmd_get_field_u32(s, "GET_HEALTH_INFO", 6)
      [] fn = "cxl_cmd_health_info_get_volatile_errors" ->
             cmd_get_field_u32(s, "GET_HEALTH_INFO", 10)
      [] fn = "cxl_cmd_health_info_get_pmem_errors" ->
             cmd_get_field_u32(s, "GET_HEALTH_INFO", 14)

\* an accessor is called on the command held: nothing changes but the
\* record of the call
Accessed(fn, size, r) ==
    /\ Returned
    /\ cmd.refcount > 0
    /\ call' = [NoCall EXCEPT !.fn = fn, !.id = cmd.send.id, !.size = size,
                              !.ret = r.ret, !.parsed = r.parsed]
    /\ UNCHANGED << dev, cmd, heap, ncalls, label, rx, lsa, nops, topoVars >>

IdentifyAccessor ==
    /\ Returned
    /\ \E fn \in IdentifyFns : Accessed(fn, 0, Accessor(fn, Enter(cmd, heap)))

PartitionAccessor ==
    /\ Returned
    /\ \E fn \in PartitionFns : Accessed(fn, 0, Accessor(fn, Enter(cmd, heap)))

HealthAccessor ==
    /\ Returned
    /\ \E fn \in HealthFns : Accessed(fn, 0, Accessor(fn, Enter(cmd, heap)))

ReadLabelGetPayload ==
    /\ Returned
    /\ \E length \in GetPayloadLengths :
          Accessed("cxl_cmd_read_label_get_payload", length,
                   read_label_result(cxl_cmd_read_label_get_payload(Enter(cmd, heap),
                                                                    length)))

NextAcc ==
    \/ NewIdentify
    \/ NewGetPartition
    \/ NewGetHealthInfo
    \/ NewReadLabel
    \/ AccSubmit
    \/ IdentifyAccessor
    \/ PartitionAccessor
    \/ HealthAccessor
    \/ ReadLabelGetPayload

SpecAcc == InitAcc /\ [][NextAcc]_vars

(***************************************************************************)
(* Label transfers: cxl_memdev_read_label(), cxl_memdev_write_label(),     *)
(* cxl_memdev_zero_label().  One step enters lsa_op(), each further step   *)
(* is one iteration of its loop.                                           *)
(***************************************************************************)
\* most transactions of one transfer
MaxTx == 3
\* most transfers
MaxOps == 2

\* the capability tables of the devices of SpecLsa: the full one, and one
\* lacking SET_LSA
LsaCapTables ==
    { << CapInfo("IDENTIFY"), CapInfo("GET_LSA"), CapInfo("SET_LSA") >>,
      << CapInfo("IDENTIFY"), CapInfo("GET_LSA") >> }

\* payload_max and lsa_size of the devices of SpecLsa
LsaDevs ==
    [payload_max : {4, 8, 9, 10}, caps : LsaCapTables, lsa_size : {4}]
    \cup [payload_max : {1024}, caps : LsaCapTables, lsa_size : {2000}]

\* the transfers asked of a device: on the large device the whole area
LsaLengths == IF dev.lsa_size > 4 THEN {dev.lsa_size} ELSE 0..3

\* offsets: in the area, running over its end, and at 2^32
LsaOffsets ==
    IF dev.lsa_size > 4 THEN {Wide(0)} ELSE {Wide(0), Wide(1), Wide(3), << W16, 0 >>}

\* the caller's buffer: the data of a write, the destination of a read
LsaBuf(op, length) == [i \in 1..length |-> IF op = "SET" THEN 5 ELSE 9]

InitLsa ==
    /\ dev \in LsaDevs
    /\ cmd = NoCmd
    /\ heap = << >>
    /\ call = NoCall
    /\ ncalls = 0
    /\ label = Ones(dev.lsa_size)
    /\ rx = << >>
    /\ lsa = NoLsa
    /\ nops = 0
    /\ TopoFresh

\* lsa_op() is entered: cxl_memdev_read_label(), cxl_memdev_write_label() or
\* cxl_memdev_zero_label(), the last without a buffer
LsaStart ==
    /\ lsa.pc = "idle"
    /\ nops < MaxOps
    /\ \E op \in {"GET", "SET", "ZERO"}, offset \in LsaOffsets, length \in LsaLengths,
          hasbuf \in BOOLEAN :
          /\ op = "ZERO" => ~hasbuf
          /\ lsa' = lsa_op_enter([NoLsa EXCEPT !.op = op, !.hasbuf = hasbuf,
                                               !.offset = offset, !.length = length,
                                               !.buf = IF hasbuf THEN LsaBuf(op, length)
                                                       ELSE << >>])
    /\ rx' = << >>
    /\ heap' = << >>
    /\ call' = NoCall
    /\ nops' = nops + 1
    /\ UNCHANGED << dev, cmd, ncalls, label, topoVars >>

\* one iteration of the loop of lsa_op(), r being what __lsa_op() returned
LsaIterDone(r, cur_len) ==
    /\ lsa' = lsa_op_next(lsa, cur_len, r)
    /\ cmd' = r.cmd
    /\ heap' = r.heap
    /\ label' = r.label
    /\ rx' = r.rx
    /\ call' = [NoCall EXCEPT !.fn = "__lsa_op", !.id = lsa.op, !.size = cur_len,
                               !.rc = r.rc, !.errno = r.errno, !.log = r.log]

\* the running state __lsa_op() is entered with
LsaEnter(cur_len) ==
    [St(NoCmd, << >>) EXCEPT !.label = label, !.rx = rx, !.ubuf = BufAt(lsa, cur_len)]

LsaIterLen(cur_len) ==
    \E env \in LsaEnvs :
        LsaIterDone(lsa_op_one(LsaEnter(cur_len), lsa.op, BufAt(lsa, cur_len), cur_len,
                               WideAdd(lsa.offset, lsa.cur_off), env, dev.caps,
                               dev.payload_max),
                    cur_len)

LsaIter ==
    /\ lsa.pc = "loop"
    /\ Len(lsa.txs) < MaxTx
    /\ LsaIterLen(cur_len_of(label_iter_max(dev.payload_max), lsa.remaining))
    /\ UNCHANGED << dev, ncalls, nops, topoVars >>

NextLsa ==
    \/ LsaStart
    \/ LsaIter

SpecLsa == InitLsa /\ [][NextLsa]_vars

(***************************************************************************)
(* The topology calls: traversals of the collections, the two resolutions  *)
(* between a memdev and its endpoint, and disable and enable of memdevs    *)
(* and ports.                                                              *)
(***************************************************************************)
MaxInval == 1

InitTopo ==
    /\ dev = [payload_max |-> 16, caps |-> << >>, lsa_size |-> 3]
    /\ cmd = NoCmd
    /\ heap = << >>
    /\ call = NoCall
    /\ ncalls = 0
    /\ label = Ones(dev.lsa_size)
    /\ rx = << >>
    /\ lsa = NoLsa
    /\ nops = 0
    /\ TopoFresh

TEnter == Topo(ctx, memdev, port, ext)

\* the first node of a list, as the get_first calls return it
ListTop(list) == IF list = << >> THEN -1 ELSE Head(list)

PortTop(t, list) == IF list = << >> THEN NullPtr ELSE Ptr(t, Head(list))

Kinds == {"ports", "endpoints", "decoders", "dports"}

\* the flag and the list of one collection of a port
FlagOf(po, kind) ==
    CASE kind = "ports" -> po.ports_init
      [] kind = "endpoints" -> po.endpoints_init
      [] kind = "decoders" -> po.decoders_init
      [] OTHER -> po.dports_init

ListOf(po, kind) ==
    CASE kind = "ports" -> po.child_ports
      [] kind = "endpoints" -> po.endpoints
      [] kind = "decoders" -> po.decoders
      [] OTHER -> po.dports

\* the collections under the bus that were enumerated when it was invalidated
Enumerated(r) ==
    {c \in PortIds \X Kinds : /\ RootOf(c[1]) = r.inval
                              /\ r.before[c[1]].live
                              /\ FlagOf(r.before[c[1]], c[2])}

Snapshot(r, c) ==
    [bus |-> r.inval, port |-> c[1], kind |-> c[2], ids |-> ListOf(r.before[c[1]], c[2])]

\* the call has returned r; a call that trapped leaves nothing to look at
TReturn(r, fn, arg, ret, rc, dup) ==
    IF r.crashed
    THEN /\ tcall' = [NoTCall EXCEPT !.fn = fn, !.arg = arg, !.outcome = "segv"]
         /\ UNCHANGED << ctx, memdev, port, ext, snap >>
    ELSE /\ ctx' = r.ctx
         /\ memdev' = r.memdev
         /\ port' = r.port
         /\ ext' = r.ext
         /\ tcall' = [fn |-> fn, arg |-> arg, ret |-> ret, rc |-> rc,
                      nscan |-> r.nscan, walked |-> r.walked,
                      dup |-> dup /\ r.nscan > 0, outcome |-> "ok",
                      inval |-> r.inval, cached |-> r.cached,
                      flushes |-> r.ctx.flushes - ctx.flushes, io |-> r.io]
         /\ IF r.inval = -1 \/ Enumerated(r) = {}
            THEN snap' = snap
            ELSE \E c \in Enumerated(r) : snap' = Snapshot(r, c)

\* the caller holds a reference on the context
CanTopo ==
    /\ tcall.outcome = "ok"
    /\ ctx.refcount > 0
    /\ UNCHANGED << cmdVars, life, pureVars >>

\* the ports a caller holds: buses and switch ports that exist
HeldPorts == {p \in {0, 1, 4} : port[p].live}

\* the ports whose endpoints, decoders and dports the caller walks
WalkedPorts == {p \in {1} : port[p].live}

\* the ports the caller disables and enables
ToggledPorts == {p \in {0, 1, 2} : port[p].live}

HeldEndpoints == {e \in {2, 3} : port[e].live}

\* the memdevs the caller disables and enables
ToggledMemdevs == {m \in {0} : Has(ctx.memdevs, m)}

HeldMemdevs == {m \in MemIds : Has(ctx.memdevs, m)}

\* what the reads of freed ports can give in this state: nothing is chosen
\* where no memdev caches a freed endpoint
UafChoices ==
    IF \E m \in MemIds : /\ memdev[m].endpoint # NullPtr
                         /\ ~LivePtr(TEnter, memdev[m].endpoint)
    THEN UafOutcomes ELSE {"null"}

\* whether an enumeration reports a device twice: nothing is chosen where
\* the collection is not enumerated
DupChoices(enumerated) == IF enumerated THEN {FALSE} ELSE BOOLEAN

memdev_get_first_ret(r, dup) ==
    TReturn(r, "cxl_memdev_get_first", -1, NullPtr, ListTop(r.ctx.memdevs), dup)

MemdevGetFirst ==
    /\ CanTopo
    /\ \E dup \in DupChoices(ctx.memdevs_init) : memdev_get_first_ret(cxl_memdevs_init(TEnter, dup), dup)

bus_get_first_ret(r, dup) ==
    TReturn(r, "cxl_bus_get_first", -1, PortTop(r, r.ctx.buses), 0, dup)

BusGetFirst ==
    /\ CanTopo
    /\ \E dup \in DupChoices(ctx.buses_init) : bus_get_first_ret(cxl_buses_init(TEnter, dup), dup)

port_get_first_ret(r, p, dup) ==
    TReturn(r, "cxl_port_get_first", p, PortTop(r, r.port[p].child_ports), 0, dup)

PortGetFirst ==
    /\ CanTopo
    /\ \E p \in HeldPorts : \E dup \in DupChoices(port[p].ports_init) :
          port_get_first_ret(cxl_ports_init(TEnter, p, dup), p, dup)

endpoint_get_first_ret(r, p, dup) ==
    TReturn(r, "cxl_endpoint_get_first", p, PortTop(r, r.port[p].endpoints), 0, dup)

EndpointGetFirst ==
    /\ CanTopo
    /\ \E p \in WalkedPorts : \E dup \in DupChoices(port[p].endpoints_init) :
          endpoint_get_first_ret(cxl_endpoints_init(TEnter, p, dup), p, dup)

decoder_get_first_ret(r, p, dup) ==
    TReturn(r, "cxl_decoder_get_first", p, NullPtr, ListTop(r.port[p].decoders), dup)

DecoderGetFirst ==
    /\ CanTopo
    /\ \E p \in WalkedPorts : \E dup \in DupChoices(port[p].decoders_init) :
          decoder_get_first_ret(cxl_decoders_init(TEnter, p, dup), p, dup)

\* cxl_port_get_nr_dports(): the count after cxl_dports_init()
port_get_nr_dports_ret(r, p, dup) ==
    TReturn(r, "cxl_port_get_nr_dports", p, NullPtr, r.port[p].nr_dports, dup)

PortGetNrDports ==
    /\ CanTopo
    /\ \E p \in WalkedPorts : \E dup \in DupChoices(port[p].dports_init) :
          port_get_nr_dports_ret(cxl_dports_init(TEnter, p, dup), p, dup)

memdev_get_endpoint_ret(r, m, dup) ==
    TReturn(r, "cxl_memdev_get_endpoint", m, r.ret, 0, dup)

MemdevGetEndpoint ==
    /\ CanTopo
    /\ \E m \in HeldMemdevs, dup \in BOOLEAN :
          memdev_get_endpoint_ret(cxl_memdev_get_endpoint(TEnter, m, dup), m, dup)

endpoint_get_memdev_ret(r, e, dup) ==
    TReturn(r, "cxl_endpoint_get_memdev", e, NullPtr, r.rc, dup)

EndpointGetMemdev ==
    /\ CanTopo
    /\ \E e \in HeldEndpoints, dup \in BOOLEAN :
          endpoint_get_memdev_ret(cxl_endpoint_get_memdev(TEnter, e, dup), e, dup)

\* at most MaxInval invalidations are made; after them only the calls that
\* stop before the unbind are followed
memdev_disable_ret(r, m, dup) ==
    /\ ctx.flushes < MaxInval \/ r.io = << >>
    /\ TReturn(r, "cxl_memdev_disable_invalidate", m, NullPtr, r.rc, dup)

MemdevDisableInvalidate ==
    /\ CanTopo
    /\ \E m \in ToggledMemdevs, ok \in BOOLEAN, dup \in BOOLEAN, uaf \in UafChoices :
          memdev_disable_ret(cxl_memdev_disable_invalidate(TEnter, m, ok, dup, uaf), m, dup)

port_disable_ret(r, p, dup) ==
    /\ ctx.flushes < MaxInval \/ r.io = << >>
    /\ TReturn(r, "cxl_port_disable_invalidate", p, NullPtr, r.rc, dup)

PortDisableInvalidate ==
    /\ CanTopo
    /\ \E p \in ToggledPorts, ok \in BOOLEAN, dup \in BOOLEAN, uaf \in UafChoices :
          port_disable_ret(cxl_port_disable_invalidate(TEnter, p, ok, dup, uaf), p, dup)

\* whether the kernel accepts a bind: nothing is chosen where the node has
\* its driver and no bind is issued
OkChoices(enabled) == IF enabled THEN {TRUE} ELSE BOOLEAN

memdev_enable_ret(r, m) == TReturn(r, "cxl_memdev_enable", m, NullPtr, r.rc, FALSE)

MemdevEnable ==
    /\ CanTopo
    /\ \E m \in ToggledMemdevs :
       \E ok \in OkChoices(ext.mem[m]) :
          memdev_enable_ret(cxl_memdev_enable(TEnter, m, ok), m)

port_enable_ret(r, p) == TReturn(r, "cxl_port_enable", p, NullPtr, r.rc, FALSE)

PortEnable ==
    /\ CanTopo
    /\ \E p \in ToggledPorts :
       \E ok \in OkChoices(ext.port[p]) :
          port_enable_ret(cxl_port_enable(TEnter, p, ok), p)

NextTopo ==
    \/ MemdevGetFirst
    \/ BusGetFirst
    \/ PortGetFirst
    \/ EndpointGetFirst
    \/ DecoderGetFirst
    \/ PortGetNrDports
    \/ MemdevGetEndpoint
    \/ EndpointGetMemdev
    \/ MemdevDisableInvalidate
    \/ PortDisableInvalidate
    \/ MemdevEnable
    \/ PortEnable

SpecTopo == InitTopo /\ [][NextTopo]_vars

(***************************************************************************)
(* SpecCtx: the references on the context.  The caller discovers memdevs,  *)
(* buses, ports and endpoints, takes up to MaxCtxRef further references    *)
(* and drops references while it holds one.                                *)
(***************************************************************************)
MaxCtxRef == 2

CanCtx ==
    /\ tcall.outcome = "ok"
    /\ ctx.refcount > 0
    /\ UNCHANGED << cmdVars, ext, snap, pureVars >>

CtxRef ==
    /\ CanCtx
    /\ life.refs < MaxCtxRef
    /\ ctx' = cxl_ref(TEnter).ctx
    /\ life' = [life EXCEPT !.refs = @ + 1]
    /\ tcall' = [NoTCall EXCEPT !.fn = "cxl_ref"]
    /\ UNCHANGED << memdev, port >>

ctx_unref_ret(r) ==
    /\ ctx' = r.ctx
    /\ memdev' = r.memdev
    /\ port' = r.port
    /\ life' = [life EXCEPT !.unrefs = @ + 1,
                            !.released = @ + (IF r.freed = << >> THEN 0 ELSE 1),
                            !.freed = @ \o r.freed]
    /\ tcall' = [NoTCall EXCEPT !.fn = "cxl_unref"]

CtxUnref ==
    /\ CanCtx
    /\ ctx_unref_ret(cxl_unref(TEnter))

NextCtx ==
    \/ MemdevGetFirst
    \/ BusGetFirst
    \/ PortGetFirst
    \/ EndpointGetFirst
    \/ MemdevGetEndpoint
    \/ CtxRef
    \/ CtxUnref

SpecCtx == InitTopo /\ [][NextCtx]_vars

(***************************************************************************)
(* SpecMaps: cxl_dport_maps_memdev() and cxl_target_maps_memdev() on the   *)
(* paths of a memdev and of a dport or target.  Paths are strings of up to *)
(* MaxPath characters.                                                     *)
(***************************************************************************)
MaxPath == 3

PathChars == {"a", "b"}

Paths == UNION {[1..n -> PathChars] : n \in 1..MaxPath}

InitMaps ==
    /\ dev = [payload_max |-> 16, caps |-> << >>, lsa_size |-> 3]
    /\ cmd = NoCmd
    /\ heap = << >>
    /\ call = NoCall
    /\ ncalls = 0
    /\ label = Ones(dev.lsa_size)
    /\ rx = << >>
    /\ lsa = NoLsa
    /\ nops = 0
    /\ ctx = NoCtx
    /\ memdev = [m \in MemIds |-> [endpoint |-> NullPtr]]
    /\ port = [p \in PortIds |-> NoPort]
    /\ ext = [mem |-> [m \in MemIds |-> TRUE], port |-> [p \in PortIds |-> TRUE]]
    /\ tcall = NoTCall
    /\ snap = NoSnap
    /\ life = NoLife
    /\ dec = NoDec
    /\ made = NoMade
    /\ walk = NoWalk
    /\ \E h \in Paths, d \in Paths, ph \in Paths \cup {NullPath} :
          maps = [NoMaps EXCEPT !.host_path = h, !.dev_path = d, !.phys_path = ph]

DportMapsMemdev ==
    /\ maps' = [maps EXCEPT !.fn = "cxl_dport_maps_memdev",
                            !.ret = cxl_dport_maps_memdev(maps.host_path, maps.dev_path,
                                                          maps.phys_path)]
    /\ UNCHANGED << cmdVars, ctx, memdev, port, ext, tcall, snap, life, dec, made, walk >>

TargetMapsMemdev ==
    /\ maps' = [maps EXCEPT !.fn = "cxl_target_maps_memdev",
                            !.ret = cxl_target_maps_memdev(maps.host_path, maps.dev_path,
                                                           maps.phys_path)]
    /\ UNCHANGED << cmdVars, ctx, memdev, port, ext, tcall, snap, life, dec, made, walk >>

NextMaps ==
    \/ DportMapsMemdev
    \/ TargetMapsMemdev

SpecMaps == InitMaps /\ [][NextMaps]_vars

(***************************************************************************)
(* SpecDec: add_cxl_decoder()'s target loop on every target list of up to   *)
(* MaxTargets ids and every failure in it, then traversals of the targets   *)
(* and lookups by position.                                                 *)
(***************************************************************************)
MaxTargets == 3

DportNames == 0..2

TargetLists == UNION {[1..n -> DportNames] : n \in 0..MaxTargets}

InitDec ==
    /\ dev = [payload_max |-> 16, caps |-> << >>, lsa_size |-> 3]
    /\ cmd = NoCmd
    /\ heap = << >>
    /\ call = NoCall
    /\ ncalls = 0
    /\ label = Ones(dev.lsa_size)
    /\ rx = << >>
    /\ lsa = NoLsa
    /\ nops = 0
    /\ ctx = NoCtx
    /\ memdev = [m \in MemIds |-> [endpoint |-> NullPtr]]
    /\ port = [p \in PortIds |-> NoPort]
    /\ ext = [mem |-> [m \in MemIds |-> TRUE], port |-> [p \in PortIds |-> TRUE]]
    /\ tcall = NoTCall
    /\ snap = NoSnap
    /\ life = NoLife
    /\ maps = NoMaps
    /\ made = NoMade
    /\ walk = NoWalk
    /\ \E ids \in TargetLists, oom_at \in -1..(MaxTargets - 1),
          resolves \in SUBSET DportNames :
          dec = [NoDec EXCEPT !.ids = ids, !.oom_at = oom_at, !.resolves = resolves]

DecUnchanged ==
    UNCHANGED << cmdVars, ctx, memdev, port, ext, tcall, snap, life, maps, made, walk >>

AddDecoder ==
    /\ ~dec.built
    /\ dec' = [dec EXCEPT
                 !.built = TRUE, !.fn = "add_cxl_decoder",
                 !.decoder = add_targets(NoDecoder,
                                 TargetEnv(dec.ids, dec.oom_at, dec.resolves), 0)]
    /\ DecUnchanged

TargetGetFirst ==
    /\ dec.built
    /\ LET first == cxl_target_get_first(dec.decoder)
       IN  dec' = [dec EXCEPT
                     !.fn = "cxl_target_get_first", !.cur = first,
                     !.seen = IF first = NullTarget THEN << >>
                              ELSE << dec.decoder.targets[first].position >>]
    /\ DecUnchanged

TargetGetNext ==
    /\ dec.built
    /\ dec.cur # NullTarget
    /\ LET next == cxl_target_get_next(dec.decoder, dec.cur)
       IN  dec' = [dec EXCEPT
                     !.fn = "cxl_target_get_next", !.cur = next,
                     !.seen = IF next = NullTarget THEN @
                              ELSE Append(@, dec.decoder.targets[next].position)]
    /\ DecUnchanged

DecoderGetTargetByPosition ==
    /\ dec.built
    /\ \E position \in -1..(MaxTargets + 1) :
          dec' = [dec EXCEPT
                    !.fn = "cxl_decoder_get_target_by_position", !.pos = position,
                    !.found = cxl_decoder_get_target_by_position(dec.decoder, position)]
    /\ DecUnchanged

NextDec ==
    \/ AddDecoder
    \/ TargetGetFirst
    \/ TargetGetNext
    \/ DecoderGetTargetByPosition

SpecDec == InitDec /\ [][NextDec]_vars

(***************************************************************************)
(* SpecMemdev: add_cxl_memdev() on every set of readable attributes and     *)
(* every failing step, on a context that lists up to MaxListed memdevs,     *)
(* then the serial and numa_node accessors on the memdev returned.          *)
(***************************************************************************)
MaxListed == 1

\* the values the attributes hold when readable
AttrValues ==
    {[a \in MemdevAttrs |->
         CASE a = "payload_max" -> pm
           [] a = "label_storage_size" -> ls
           [] a = "serial" -> U64(7)
           [] a = "numa_node" -> 1
           [] a = "firmware_version" -> << 1, 2 >>
           [] OTHER -> U64(256)] :
     pm \in {-1, 16}, ls \in {U64(3), ULLONG_MAX}}

\* a memdev that an earlier add_cxl_memdev() listed
Listed(id) ==
    [id |-> id, pmem_size |-> U64(256), ram_size |-> U64(256), payload_max |-> 16,
     lsa_size |-> U64(3), serial |-> U64(id), numa_node |-> 0,
     firmware_version |-> << 1, 1 >>]

ListedBefore == {[k \in 1..n |-> Listed(k - 1)] : n \in 0..MaxListed}

InitMemdev ==
    /\ dev = [payload_max |-> 16, caps |-> << >>, lsa_size |-> 3]
    /\ cmd = NoCmd
    /\ heap = << >>
    /\ call = NoCall
    /\ ncalls = 0
    /\ label = Ones(dev.lsa_size)
    /\ rx = << >>
    /\ lsa = NoLsa
    /\ nops = 0
    /\ ctx = NoCtx
    /\ memdev = [m \in MemIds |-> [endpoint |-> NullPtr]]
    /\ port = [p \in PortIds |-> NoPort]
    /\ ext = [mem |-> [m \in MemIds |-> TRUE], port |-> [p \in PortIds |-> TRUE]]
    /\ tcall = NoTCall
    /\ snap = NoSnap
    /\ life = NoLife
    /\ maps = NoMaps
    /\ dec = NoDec
    /\ walk = NoWalk
    /\ \E before \in ListedBefore, id \in 0..MaxListed,
          readable \in SUBSET MemdevAttrs, value \in AttrValues,
          fails \in MemdevSteps \cup {""} :
          made = [NoMade EXCEPT !.before = before, !.memdevs = before, !.id = id,
                                !.env = MemdevEnv(readable, value, fails)]

MadeUnchanged ==
    UNCHANGED << cmdVars, ctx, memdev, port, ext, tcall, snap, life, maps, dec, walk >>

AddMemdev ==
    /\ made.fn = ""
    /\ LET r == add_cxl_memdev_read(made.before, made.env, made.id)
       IN  made' = [made EXCEPT !.fn = "add_cxl_memdev", !.memdevs = r.memdevs,
                                !.ret = r.ret]
    /\ MadeUnchanged

MemdevGetSerial ==
    /\ made.fn # ""
    /\ made.ret # NullMemdev
    /\ made' = [made EXCEPT !.fn = "cxl_memdev_get_serial",
                            !.got = cxl_memdev_get_serial(made.ret)]
    /\ MadeUnchanged

MemdevGetNumaNode ==
    /\ made.fn # ""
    /\ made.ret # NullMemdev
    /\ made' = [made EXCEPT !.fn = "cxl_memdev_get_numa_node",
                            !.got = cxl_memdev_get_numa_node(made.ret)]
    /\ MadeUnchanged

NextMemdev ==
    \/ AddMemdev
    \/ MemdevGetSerial
    \/ MemdevGetNumaNode

SpecMemdev == InitMemdev /\ [][NextMemdev]_vars

(***************************************************************************)
(* SpecWalk: cxl_port_foreach_all() on every tree of up to MaxNodes ports   *)
(* and every top in it.  SpecWalkFair adds that the loop keeps running: it  *)
(* is a for loop whose body returns.                                        *)
(***************************************************************************)
MaxNodes == 5

\* the trees on ports 0..n-1 with port 0 the root: every ordered tree has
\* such a numbering with each parent before its children and siblings in
\* increasing order
Trees ==
    UNION {{f \in [0..(n - 1) -> -1..(n - 2)] :
               /\ f[0] = NoParent
               /\ \A p \in 1..(n - 1) : f[p] >= 0 /\ f[p] < p} : n \in 1..MaxNodes}

InitWalk ==
    /\ dev = [payload_max |-> 16, caps |-> << >>, lsa_size |-> 3]
    /\ cmd = NoCmd
    /\ heap = << >>
    /\ call = NoCall
    /\ ncalls = 0
    /\ label = Ones(dev.lsa_size)
    /\ rx = << >>
    /\ lsa = NoLsa
    /\ nops = 0
    /\ ctx = NoCtx
    /\ memdev = [m \in MemIds |-> [endpoint |-> NullPtr]]
    /\ port = [p \in PortIds |-> NoPort]
    /\ ext = [mem |-> [m \in MemIds |-> TRUE], port |-> [p \in PortIds |-> TRUE]]
    /\ tcall = NoTCall
    /\ snap = NoSnap
    /\ life = NoLife
    /\ maps = NoMaps
    /\ dec = NoDec
    /\ made = NoMade
    /\ \E f \in Trees : \E top \in DOMAIN f :
          walk = [NoWalk EXCEPT !.parent = f, !.top = top]

WalkUnchanged ==
    UNCHANGED << cmdVars, ctx, memdev, port, ext, tcall, snap, life, maps, dec, made >>

\* the loop's initialisation: port = cxl_port_get_first(top)
ForeachAllFirst ==
    /\ walk.fn = ""
    /\ LET first == cxl_port_get_first(walk, walk.top)
       IN  walk' = [walk EXCEPT !.fn = "cxl_port_get_first", !.port = first,
                                !.seen = IF first = NoPortRef THEN << >> ELSE << first >>]
    /\ WalkUnchanged

\* one round of the loop: port = cxl_port_get_next_all(port, top)
ForeachAllNext ==
    /\ walk.fn # ""
    /\ walk.port \notin {NoPortRef, PortCrash}
    /\ LET next == cxl_port_get_next_all(walk, walk.port, walk.top)
       IN  walk' = [walk EXCEPT !.fn = "cxl_port_get_next_all", !.port = next,
                                !.seen = IF next \in {NoPortRef, PortCrash} THEN @
                                         ELSE Append(@, next)]
    /\ WalkUnchanged

NextWalk ==
    \/ ForeachAllFirst
    \/ ForeachAllNext

SpecWalk == InitWalk /\ [][NextWalk]_vars

SpecWalkFair == SpecWalk /\ WF_vars(NextWalk)

(***************************************************************************)
(* Properties of the command engine, checked under SpecCmd.                *)
(***************************************************************************)
BuilderFns == {"cxl_cmd_new_identify", "cxl_cmd_new_get_health_info",
               "cxl_cmd_new_get_partition", "cxl_cmd_new_set_partition",
               "cxl_cmd_new_read_label", "cxl_cmd_new_write_label",
               "cxl_cmd_new_raw"}

\* the query ioctls a call issued, in order
QueryIoctls(log) == SelectSeq(log, LAMBDA e : e.ev = "ioctl" /\ e.k = "QUERY")

\* the query buffers a call allocated, in order
QueryAllocs(log) == SelectSeq(log, LAMBDA e : e.ev = "alloc" /\ e.k = "query")

\* the last call was a builder whose lookup found the device's capability
\* table lacking the command id
LookupUnsupported ==
    /\ call.fn \in BuilderFns
    /\ \A i \in DOMAIN dev.caps : dev.caps[i].id # call.id
    /\ \E i \in DOMAIN call.log :
          call.log[i].ev = "search" /\ call.log[i].rc = -EOPNOTSUPP

\* C3: every builder, on a device whose capability table lacks the command
\* id, returns no command with the unsupported-operation error, and has
\* allocated no send descriptor or payload buffer, written no payload and
\* issued no send.
C3_UnsupportedBuildReturnsCleanly ==
    LookupUnsupported =>
        /\ call.outcome = "return"
        /\ call.isnull
        /\ call.errno = EOPNOTSUPP
        /\ \A i \in DOMAIN call.log :
              /\ ~(call.log[i].ev = "alloc" /\ call.log[i].k \in {"send", "in", "out"})
              /\ call.log[i].ev # "write"
              /\ ~(call.log[i].ev = "ioctl" /\ call.log[i].k = "SEND")

\* the step is a cxl_cmd_set_{input,output}_payload() call whose size is
\* negative or above payload_max
OversizeSetPayloadStep ==
    /\ ncalls' = ncalls + 1
    /\ call'.fn \in {"cxl_cmd_set_input_payload", "cxl_cmd_set_output_payload"}
    /\ (call'.size > dev.payload_max \/ call'.size < 0)

\* C4: cxl_cmd_set_input_payload and cxl_cmd_set_output_payload with a size
\* above payload_max or below zero return -EINVAL, allocate nothing and leave
\* the command (send descriptor, owned buffers, heap) as it was, with or
\* without a caller's buffer.
C4_OversizePayloadRejected ==
    [][OversizeSetPayloadStep =>
          /\ call'.rc = -EINVAL
          /\ cmd' = cmd
          /\ heap' = heap
          /\ \A i \in DOMAIN call'.log : call'.log[i].ev # "alloc"]_vars

\* an oversize output payload without a caller's buffer was rejected
C4_Witness ==
    /\ call.fn = "cxl_cmd_set_output_payload"
    /\ call.size > dev.payload_max
    /\ ~call.hasbuf
    /\ call.rc = -EINVAL
    /\ cmd.refcount > 0

\* C10: a build issues at most two query ioctls, the first with a zero-entry
\* buffer and the second with a buffer of exactly the number of entries the
\* first reported; a failed first query is not followed by a second and the
\* build returns no command with that error; the capability table is searched
\* only after two query ioctls of which the second succeeded, and a build that
\* searched or succeeded issued exactly two.
C10_TwoPhaseQuery ==
    call.fn \in BuilderFns =>
        /\ Len(QueryIoctls(call.log)) <= 2
        /\ Len(QueryIoctls(call.log)) >= 1 =>
              /\ QueryIoctls(call.log)[1].n = 0
              /\ QueryAllocs(call.log)[1].n = 0
        /\ Len(QueryIoctls(call.log)) = 2 =>
              /\ QueryIoctls(call.log)[1].rc = 0
              /\ QueryIoctls(call.log)[2].n = Len(dev.caps)
              /\ QueryAllocs(call.log)[2].n = Len(dev.caps)
        /\ (Len(QueryIoctls(call.log)) >= 1 /\ QueryIoctls(call.log)[1].rc # 0) =>
              /\ Len(QueryIoctls(call.log)) = 1
              /\ call.isnull
              /\ call.rc = QueryIoctls(call.log)[1].rc
              /\ call.errno = -QueryIoctls(call.log)[1].rc
        /\ \A i \in DOMAIN call.log :
              call.log[i].ev = "search" =>
                 /\ Len(QueryIoctls(SubSeq(call.log, 1, i - 1))) = 2
                 /\ QueryIoctls(call.log)[2].rc = 0
        /\ ~call.isnull => Len(QueryIoctls(call.log)) = 2

\* a build that succeeded after querying a device with several commands
C10_Witness ==
    /\ call.fn = "cxl_cmd_new_read_label"
    /\ ~call.isnull
    /\ Len(dev.caps) > 1
    /\ Len(QueryIoctls(call.log)) = 2
    /\ QueryIoctls(call.log)[2].n = Len(dev.caps)

(***************************************************************************)
(* Properties of label transfers, checked under SpecLsa.                   *)
(***************************************************************************)
\* the chunk capacity of the device: payload_max less the 8-byte header
ChunkCap == dev.payload_max - 8

CeilDiv(a, b) == (a + b - 1) \div b

\* a transfer of length > 0 has returned with every transaction succeeding
TransferSucceeded ==
    /\ lsa.pc = "idle"
    /\ lsa.op # "none"
    /\ lsa.length > 0
    /\ lsa.rc = 0

\* C1: on a device with payload_max P > 8, a read, write or zero of length
\* L > 0 at any offset O in which every transaction succeeds has issued
\* exactly ceil(L / C) transactions, C = P - 8, the i-th (from 0) at offset
\* O + i*C with length min(C, L - i*C).
C1_ChunkedTransactions ==
    (dev.payload_max > 8 /\ TransferSucceeded) =>
        /\ Len(rx) = CeilDiv(lsa.length, ChunkCap)
        /\ \A i \in DOMAIN rx :
              /\ rx[i].status = 0
              /\ << rx[i].hi, rx[i].lo >> = WideAdd(lsa.offset, (i - 1) * ChunkCap)
              /\ rx[i].len = Min(ChunkCap, lsa.length - (i - 1) * ChunkCap)

\* every transaction before the last one made succeeded, and a failed one
\* ended the transfer with its error
FailureEndsTransfer ==
    \A i \in DOMAIN lsa.txs :
        lsa.txs[i].rc # 0 =>
            /\ i = Len(lsa.txs)
            /\ lsa.pc = "idle"
            /\ lsa.rc = lsa.txs[i].rc
            /\ call.fn = "__lsa_op"
            /\ call.rc = lsa.rc

\* what each successful transaction of a write or zero stored is in the
\* label area, whatever happened to the transactions after it
EffectsRetained ==
    \A i \in DOMAIN lsa.txs :
        lsa.txs[i].rc = 0 =>
            /\ i \in DOMAIN rx
            /\ rx[i].status = 0
            /\ rx[i].len = lsa.txs[i].cur_len
            /\ \A j \in 1..lsa.txs[i].cur_len :
                  /\ lsa.op = "SET" => label[rx[i].lo + j] = lsa.buf[lsa.txs[i].cur_off + j]
                  /\ lsa.op = "ZERO" => label[rx[i].lo + j] = 0

\* the step makes a transaction that fails: it stores nothing and the
\* transfer is over
FailingTxStep ==
    (Len(lsa'.txs) = Len(lsa.txs) + 1 /\ lsa'.txs[Len(lsa'.txs)].rc # 0) =>
        /\ lsa'.pc = "idle"
        /\ label' = label
        /\ \A i \in DOMAIN rx' : i > Len(rx) => rx'[i].status # 0

\* once a transfer is over the device receives nothing until another
\* transfer is started
NoTxAfterReturn ==
    lsa.pc = "idle" => (rx' = rx \/ (nops' = nops + 1 /\ rx' = << >>)) /\ label' = label

\* C2: when the k-th transaction of a label read, write or zero fails (its
\* command cannot be built, the transport fails, or the device reports a
\* status), no further transaction is issued, the transfer returns that
\* transaction's error, and what transactions 1..k-1 stored on the device
\* stays.
C2_StopOnFirstFailure ==
    /\ [](FailureEndsTransfer /\ EffectsRetained)
    /\ [][FailingTxStep /\ NoTxAfterReturn]_vars

\* a write whose second transaction failed after the first stored its data
C2_Witness ==
    /\ lsa.pc = "idle"
    /\ lsa.op = "SET"
    /\ dev.payload_max > 8
    /\ Len(lsa.txs) = 2
    /\ lsa.txs[1].rc = 0
    /\ lsa.txs[2].rc # 0
    /\ lsa.rc = lsa.txs[2].rc
    /\ lsa.remaining > 0
    /\ label[lsa.offset[2] + 1] = 5

(***************************************************************************)
(* Claims about the topology.                                              *)
(***************************************************************************)

\* C5: after bus_invalidate(B), reached through a memdev or port disable
\* that returned 0, every memdev whose cached endpoint lay under B has an
\* empty endpoint cache, B has no child ports, B's ports-initialized flag is
\* reset, and one flush has been written.
C5_InvalidateClearsCaches ==
    (tcall.inval # -1 /\ tcall.rc = 0) =>
        /\ \A m \in tcall.cached : memdev[m].endpoint = NullPtr
        /\ port[tcall.inval].child_ports = << >>
        /\ ~port[tcall.inval].ports_init
        /\ tcall.flushes = 1

\* the call returned without enumerating, walking or changing anything
Untouched(r) ==
    /\ r.nscan = 0
    /\ ~r.walked
    /\ r.ctx = ctx
    /\ r.memdev = memdev
    /\ r.port = port

ReturnsNone(r) == r.ret = NullPtr /\ Untouched(r)

ReturnsCached(r, m) == r.ret = memdev[m].endpoint /\ Untouched(r)

\* what cxl_memdev_get_endpoint() does in this state
EndpointLookup ==
    \A m \in HeldMemdevs, dup \in BOOLEAN :
        /\ (memdev[m].endpoint = NullPtr /\ ~ext.mem[m]) =>
               ReturnsNone(cxl_memdev_get_endpoint(TEnter, m, dup))
        /\ memdev[m].endpoint # NullPtr =>
               ReturnsCached(cxl_memdev_get_endpoint(TEnter, m, dup), m)

\* a step without a bus invalidation leaves every cached endpoint in place
CacheKept ==
    \A m \in MemIds :
        (memdev[m].endpoint # NullPtr /\ ctx'.flushes = ctx.flushes) =>
            memdev'[m].endpoint = memdev[m].endpoint

\* C6: for every memdev D, while D is disabled and has no cached endpoint
\* cxl_memdev_get_endpoint(D) returns none without enumerating any bus or
\* port; and once an endpoint E is cached for D, every call until a bus
\* invalidation returns the same E without scanning or walking the buses.
C6_EndpointCache == []EndpointLookup /\ [][CacheKept]_vars

\* no collection was enumerated more than once since it was last invalidated
ScanOnce ==
    /\ ctx.scans.memdevs <= 1
    /\ ctx.scans.buses <= 1
    /\ \A p \in PortIds :
          port[p].live => /\ port[p].scans.ports <= 1
                          /\ port[p].scans.endpoints <= 1
                          /\ port[p].scans.decoders <= 1
                          /\ port[p].scans.dports <= 1

\* a traversal of a collection whose flag is set enumerates nothing
CachedTraversal ==
    \A dup \in BOOLEAN :
        /\ ctx.memdevs_init => cxl_memdevs_init(TEnter, dup) = TEnter
        /\ ctx.buses_init => cxl_buses_init(TEnter, dup) = TEnter
        /\ \A p \in PortIds :
              /\ port[p].ports_init => cxl_ports_init(TEnter, p, dup) = TEnter
              /\ port[p].endpoints_init => cxl_endpoints_init(TEnter, p, dup) = TEnter
              /\ port[p].decoders_init => cxl_decoders_init(TEnter, p, dup) = TEnter
              /\ port[p].dports_init => cxl_dports_init(TEnter, p, dup) = TEnter

\* C7: each collection (the context's memdevs and buses, a port's child
\* ports, endpoints, decoders and dports) is enumerated at most once between
\* two invalidations of it; later traversals return the cached nodes.
C7_EnumeratedOnce == ScanOnce /\ CachedTraversal

\* a bus's child ports were enumerated again after an invalidation, once, and
\* the traversal after that found them cached
C7_Witness ==
    /\ ctx.flushes = 1
    /\ port[0].ports_init
    /\ port[0].scans.ports = 1
    /\ port[0].child_ports # << >>
    /\ tcall.fn = "cxl_port_get_first"
    /\ tcall.arg = 0
    /\ tcall.nscan = 0

NoDuplicates ==
    /\ NoDup(ctx.memdevs)
    /\ NoDup(ctx.buses)
    /\ \A p \in PortIds :
          /\ NoDup(port[p].child_ports)
          /\ NoDup(port[p].endpoints)
          /\ NoDup(port[p].decoders)
          /\ NoDup(port[p].dports)
          /\ port[p].nr_dports = Len(port[p].dports)

\* adding an id that is present changes nothing
AddPresent ==
    /\ \A m \in MemIds : Has(ctx.memdevs, m) => add_cxl_memdev(TEnter, m) = TEnter
    /\ \A b \in BusIds : Has(ctx.buses, b) => add_cxl_bus(TEnter, b) = TEnter
    /\ \A p \in PortIds, id \in PortIds :
          /\ Has(port[p].child_ports, id) => add_cxl_port(TEnter, p, id) = TEnter
          /\ Has(port[p].endpoints, id) => add_cxl_endpoint(TEnter, p, id) = TEnter
          /\ Has(port[p].decoders, id) => add_cxl_decoder(TEnter, p, id) = TEnter
          /\ Has(port[p].dports, id) => add_cxl_dport(TEnter, p, id) = TEnter

\* C8: no collection holds two nodes with the same id, also when an
\* enumeration reports an id more than once; adding an id that is present
\* leaves the collection and the dport count as they are.
C8_NoDuplicateNodes == NoDuplicates /\ AddPresent

\* the enumeration of port1's dports reported one of the two twice
C8_Witness ==
    /\ tcall.fn = "cxl_port_get_nr_dports"
    /\ tcall.dup
    /\ tcall.nscan = 1
    /\ tcall.rc = 2

\* C9: with the external tree unchanged, a collection of a port under a bus
\* that was enumerated before the bus was invalidated holds, once it is
\* enumerated again, as many nodes with the same ids, none twice.
C9_RediscoverySame ==
    (/\ snap.bus # -1
     /\ port[snap.port].live
     /\ FlagOf(port[snap.port], snap.kind)) =>
        /\ Len(ListOf(port[snap.port], snap.kind)) = Len(snap.ids)
        /\ \A id \in 0 .. 4 : Has(ListOf(port[snap.port], snap.kind), id) <=> Has(snap.ids, id)
        /\ NoDup(ListOf(port[snap.port], snap.kind))

\* port1's two endpoints, enumerated before bus 0 was invalidated, were
\* enumerated again on the port1 found after it
C9_Witness ==
    /\ snap.bus = 0
    /\ snap.port = 1
    /\ snap.kind = "endpoints"
    /\ Len(snap.ids) = 2
    /\ port[1].live
    /\ port[1].gen = 1
    /\ port[1].endpoints_init

(***************************************************************************)
(* Claims about the command engine: query caching, submit, accessors.      *)
(***************************************************************************)

\* the step is a build that follows the release of a command which an
\* earlier build against the device had brought to query status ok
BuildAfterQueriedOk ==
    /\ call.fn = "cxl_cmd_unref"
    /\ call.id # "NONE"
    /\ cmd.refcount = 0
    /\ call'.fn \in BuilderFns

\* C11: once a build against the device has produced query status ok, a
\* later build against the same device issues no query ioctl (and allocates
\* no query buffer): the earlier result is its capability table.
C11_QueryCachedPerDevice ==
    [][BuildAfterQueriedOk =>
          /\ QueryIoctls(call'.log) = << >>
          /\ QueryAllocs(call'.log) = << >>]_vars

\* the send ioctls a call issued
SendIoctls(log) == SelectSeq(log, LAMBDA e : e.ev = "ioctl" /\ e.k = "SEND")

\* the command held, were its query status qs
CmdWithStatus(qs) == Enter([cmd EXCEPT !.query_status = qs], heap)

\* the call returned rc and did nothing else to state s
Refused(r, s, rc) == r = Ret(s, rc)

\* cxl_cmd_submit() and cxl_cmd_do_query() on the command held, were its
\* query status unsupported or not-run: the error, nothing issued, the
\* command (its status fields included) as it was
SubmitRefusals ==
    cmd.refcount > 0 =>
        \A denv \in DoEnvs :
            /\ Refused(cxl_cmd_submit(CmdWithStatus("UNSUPPORTED"), denv, dev.caps),
                       CmdWithStatus("UNSUPPORTED"), -EOPNOTSUPP)
            /\ Refused(cxl_cmd_submit(CmdWithStatus("NOT_RUN"), denv, dev.caps),
                       CmdWithStatus("NOT_RUN"), -EINVAL)
            /\ Refused(cxl_cmd_do_query(CmdWithStatus("UNSUPPORTED"),
                                        [BuildOk EXCEPT !.q0 = denv], dev.caps),
                       CmdWithStatus("UNSUPPORTED"), -EOPNOTSUPP)

\* a cxl_cmd_submit() step that issued a send started with query status ok,
\* and no step takes a command from unsupported to ok
SendOnlyWhenOk ==
    /\ (call'.fn = "cxl_cmd_submit" /\ SendIoctls(call'.log) # << >>) =>
           cmd.query_status = "OK"
    /\ cmd.query_status = "UNSUPPORTED" => cmd'.query_status # "OK"

\* C12: cxl_cmd_submit issues a send only when the query status is ok; with
\* unsupported it returns -EOPNOTSUPP and with not-run -EINVAL, both without
\* a send and without changing the cached device status; a command never
\* moves from unsupported back to ok.
C12_SubmitNeedsQueryOk == []SubmitRefusals /\ [][SendOnlyWhenOk]_vars

\* a submit of a command with query status ok has issued its send
C12_Witness ==
    /\ call.fn = "cxl_cmd_submit"
    /\ cmd.query_status = "OK"
    /\ Len(SendIoctls(call.log)) = 1

\* what a submit step did on the transport: the events of its log, the last
\* of them carrying the transport's result
TransportResult(log) == IF log = << >> THEN -ENOMEM ELSE log[Len(log)].rc

\* the send reached the device, which ran it and reported a status
DeviceRan(log) == SendIoctls(log) # << >> /\ log[Len(log)].rc = 0

\* what cxl_cmd_submit() returned in r, dev_status being what the device
\* reports for the send: one attempt on the transport and at most one send,
\* the transport's result returned, and the mailbox status afterwards the
\* one the device reported
SubmitResult(r, dev_status) ==
    /\ Len(r.log) <= 1
    /\ Len(SendIoctls(r.log)) <= 1
    /\ r.rc = TransportResult(r.log)
    /\ DeviceRan(r.log) =>
           /\ r.rc = 0
           /\ cxl_cmd_get_mbox_status(r) = dev_status
    /\ ~DeviceRan(r.log) => r.rc < 0

\* cxl_cmd_submit() of the command held, under every transport, against the
\* status the device stores for the command
SubmitsOnce ==
    cmd.refcount > 0 =>
        \A denv \in DoEnvs :
            SubmitResult(cxl_cmd_submit(Enter(cmd, heap), denv, dev.caps),
                         KernelSend(Enter(cmd, heap), denv).cmd.send.retval)

\* a cxl_cmd_submit() step: at most one send, the transport's result
\* returned, an error unless the device ran the send
SubmitStep ==
    call'.fn = "cxl_cmd_submit" =>
        /\ Len(call'.log) <= 1
        /\ Len(SendIoctls(call'.log)) <= 1
        /\ call'.rc = TransportResult(call'.log)
        /\ DeviceRan(call'.log) <=> call'.rc = 0
        /\ DeviceRan(call'.log) =>
               cxl_cmd_get_mbox_status(Enter(cmd', heap')) \in DevStatus

\* C13: each cxl_cmd_submit issues at most one send and returns the
\* transport result; afterwards cxl_cmd_get_mbox_status returns the status
\* the device reported for that send, whatever the transport returned; on a
\* transport failure the error is returned and no second send is attempted.
C13_SubmitSendsOnce == []SubmitsOnce /\ [][SubmitStep]_vars

\* a submit whose transport succeeded while the device reported a failure
C13_Witness ==
    /\ call.fn = "cxl_cmd_submit"
    /\ call.rc = 0
    /\ DeviceRan(call.log)
    /\ cxl_cmd_get_mbox_status(Enter(cmd, heap)) = 2

(***************************************************************************)
(* Claims about the output accessors, checked under SpecAcc, where ncalls  *)
(* counts the submits of the command held.                                 *)
(***************************************************************************)
AccessorFns == IdentifyFns \cup PartitionFns \cup HealthFns \cup ReadLabelFns

\* the accessors that return a capacity in bytes
CapacityFns ==
    PartitionFns \cup (IdentifyFns \ {"cxl_cmd_identify_get_label_size",
                                      "cxl_cmd_identify_get_fw_rev"})

\* the command id an accessor reads the answer of
FnId(fn) ==
    CASE fn \in IdentifyFns -> "IDENTIFY"
      [] fn \in PartitionFns -> "GET_PARTITION_INFO"
      [] fn \in HealthFns -> "GET_HEALTH_INFO"
      [] fn \in ReadLabelFns -> "GET_LSA"

\* accessor fn returned invalid-argument: -EINVAL, as unsigned int for the
\* label size, and the failure sentinel for a capacity
InvalidArgument(fn, ret) ==
    CASE fn \in CapacityFns -> ret = ULLONG_MAX
      [] fn = "cxl_cmd_identify_get_label_size" -> ret = U32(-EINVAL)
      [] OTHER -> ret = -EINVAL

\* the last call was an accessor
AccessorCalled == call.fn \in AccessorFns /\ cmd.refcount > 0

\* C14: an output accessor called on a command that was built but never
\* submitted fails with invalid-argument and returns no value parsed from
\* the output payload.
C14_NeverSubmittedRejected ==
    (AccessorCalled /\ ncalls = 0) =>
        /\ ~call.parsed
        /\ InvalidArgument(call.fn, call.ret)

\* C15: an output accessor called on a command built for a different command
\* id never returns a payload-derived value, whatever the state of the
\* command: the integer accessors return invalid-argument, the capacity
\* accessors their failure sentinel, the maximum value.
C15_OtherIdRejected ==
    (AccessorCalled /\ FnId(call.fn) # cmd.send.id) =>
        /\ ~call.parsed
        /\ InvalidArgument(call.fn, call.ret)

\* an accessor of another command was called on a command the device has
\* answered
C15_Witness ==
    /\ AccessorCalled
    /\ call.fn = "cxl_cmd_partition_get_active_volatile_size"
    /\ cmd.send.id = "IDENTIFY"
    /\ ncalls > 0
    /\ cmd.outbuf = IdentifyAnswer(2)
    /\ call.ret = ULLONG_MAX

\* the step is an accessor called right after a submit that reached the
\* device, which reported a non-zero status
AccessorAfterDeviceError ==
    /\ call.fn = "cxl_cmd_submit"
    /\ call.rc = 0
    /\ cxl_cmd_get_mbox_status(Enter(cmd, heap)) # 0
    /\ call'.fn \in AccessorFns

\* C16: after a submit for which the device reported a non-zero status code,
\* every output accessor of the command surfaces that status as a failure
\* instead of returning a value parsed from the output payload.
C16_DeviceStatusSurfaced ==
    [][AccessorAfterDeviceError => ~call'.parsed]_vars

\* the byte offset of the capacity field an accessor reads
CapacityOffset(fn) ==
    CASE fn = "cxl_cmd_identify_get_total_size" -> 16
      [] fn = "cxl_cmd_identify_get_volatile_only_size" -> 24
      [] fn = "cxl_cmd_identify_get_persistent_only_size" -> 32
      [] fn = "cxl_cmd_identify_get_partition_align" -> 40
      [] fn = "cxl_cmd_partition_get_active_volatile_size" -> 0
      [] fn = "cxl_cmd_partition_get_active_persistent_size" -> 8
      [] fn = "cxl_cmd_partition_get_next_volatile_size" -> 16
      [] fn = "cxl_cmd_partition_get_next_persistent_size" -> 24

\* v * 268435456 modulo 2^64 for the number v with little-endian bytes b:
\* 2^28 is 16 * 256^3, so the byte of weight 256^k of the product is made of
\* the low half of byte k - 3 of v and the high half of byte k - 4
ByteOr0(b, k) == IF k < 0 THEN 0 ELSE b[k + 1]

TimesMultiplier(b) ==
    [i \in 1..8 |-> ((ByteOr0(b, 8 - i - 3) * 16) % 256) + (ByteOr0(b, 8 - i - 4) \div 16)]

\* a capacity accessor returned a value
CapacityReturned == AccessorCalled /\ call.fn \in CapacityFns /\ call.parsed

\* C17: every capacity accessor returns the little-endian raw value v of its
\* field times 268435456, computed modulo 2^64 with no overflow guard; raw 4
\* yields 1073741824.
C17_CapacityConversion ==
    /\ cxl_capacity_to_bytes(RawCap(2)) = U64(1073741824)
    /\ CapacityReturned =>
           call.ret = TimesMultiplier(Field(cmd.outbuf, CapacityOffset(call.fn), 8))

\* a capacity accessor returned the product of a raw value of 2^36 + 4, which
\* leaves 64 bits
C17_Witness ==
    /\ CapacityReturned
    /\ Field(cmd.outbuf, CapacityOffset(call.fn), 8) = RawCap(4)
    /\ call.ret = U64(1073741824)

(***************************************************************************)
(* Claims about enable and disable, checked under SpecTopo.                *)
(***************************************************************************)
\* the memdevs and ports the library holds an object for
KnownMemdevs == {m \in MemIds : Has(ctx.memdevs, m)}

KnownPorts == {p \in PortIds : port[p].live}

\* the call found the node enabled: success, no request issued, and nothing
\* of state t changed
EnableNoOp(r, t) == r = [t EXCEPT !.rc = 0, !.io = << "is_enabled" >>]

\* C18: enable on a memory device or port that is already enabled returns
\* success without issuing a bind request and without changing any cached
\* topology state.
C18_EnableEnabledNoOp ==
    /\ \A m \in KnownMemdevs, ok \in BOOLEAN :
          ext.mem[m] => EnableNoOp(cxl_memdev_enable(TEnter, m, ok), TEnter)
    /\ \A p \in KnownPorts, ok \in BOOLEAN :
          ext.port[p] => EnableNoOp(cxl_port_enable(TEnter, p, ok), TEnter)

\* an enable of an enabled memdev whose endpoint is resolved has returned
C18_Witness ==
    /\ tcall.fn = "cxl_memdev_enable"
    /\ tcall.io = << "is_enabled" >>
    /\ tcall.rc = 0
    /\ memdev[tcall.arg].endpoint # NullPtr

\* the call found the node disabled: one bind, one check after it, success
\* exactly when the node is then enabled (enabled says so), -ENXIO otherwise,
\* and the library's objects as they were in state t
EnableOnce(r, t, enabled) ==
    /\ r.io = << "is_enabled", "bind", "is_enabled" >>
    /\ r.rc = 0 <=> enabled
    /\ r.rc # 0 => r.rc = -ENXIO
    /\ r.ctx = t.ctx
    /\ r.memdev = t.memdev
    /\ r.port = t.port

\* the driver link of a memdev or port after a call
MemEnabled(r, m) == r.ext.mem[m]

PortEnabled(r, p) == r.ext.port[p]

EnableMemdevOnce(r, m) == EnableOnce(r, TEnter, MemEnabled(r, m))

EnablePortOnce(r, p) == EnableOnce(r, TEnter, PortEnabled(r, p))

\* C19: enable on a disabled memory device or port issues exactly one bind
\* request and then checks the enabled state exactly once: it returns
\* success if and only if the node is then enabled and a failure otherwise;
\* it never issues a second bind.
C19_EnableBindsOnce ==
    /\ \A m \in KnownMemdevs, ok \in BOOLEAN :
          ~ext.mem[m] => EnableMemdevOnce(cxl_memdev_enable(TEnter, m, ok), m)
    /\ \A p \in KnownPorts, ok \in BOOLEAN :
          ~ext.port[p] => EnablePortOnce(cxl_port_enable(TEnter, p, ok), p)

\* an enable of a disabled memdev has failed: the bind did not take
C19_Witness ==
    /\ tcall.fn = "cxl_memdev_enable"
    /\ tcall.io = << "is_enabled", "bind", "is_enabled" >>
    /\ tcall.rc = -ENXIO
    /\ ~ext.mem[tcall.arg]

\* the call was refused: -EINVAL, no unbind, every port, endpoint cache and
\* initialized flag as in state t, no flush written
RootRefused(r, t) ==
    /\ r.rc = -EINVAL
    /\ r.io = << >>
    /\ r.ext = t.ext
    /\ r.memdev = t.memdev
    /\ r.ctx = t.ctx
    /\ r.inval = -1
    /\ ~r.crashed
    /\ \A q \in PortIds : [r.port[q] EXCEPT !.bus = 0] = [t.port[q] EXCEPT !.bus = 0]

\* C20: cxl_port_disable_invalidate on a root port returns invalid-argument
\* without issuing unbind, destroying any port, clearing any endpoint cache,
\* resetting any initialized flag, or writing the flush notification.
C20_RootDisableRefused ==
    \A p \in KnownPorts \cap BusIds, ok \in BOOLEAN, dup \in BOOLEAN, uaf \in UafChoices :
        RootRefused(cxl_port_disable_invalidate(TEnter, p, ok, dup, uaf), TEnter)

\* a disable of a root port with discovered ports and a resolved endpoint
\* under it has returned -EINVAL
C20_Witness ==
    /\ tcall.fn = "cxl_port_disable_invalidate"
    /\ tcall.arg \in BusIds
    /\ tcall.rc = -EINVAL
    /\ port[tcall.arg].ports_init
    /\ \E m \in MemIds : memdev[m].endpoint # NullPtr

\* the unbind requests of a call
Unbinds(io) == SelectSeq(io, LAMBDA e : e = "unbind")

\* a port record but for the bus a root port caches
PortLess(p) == [p EXCEPT !.bus = -1]

\* the cached topology of r is that of t: the context's lists and flags,
\* every port with its lists and initialized flags, every endpoint cache
TopologyUnchanged(r, t) ==
    /\ r.ctx = t.ctx
    /\ r.memdev = t.memdev
    /\ \A q \in PortIds : PortLess(r.port[q]) = PortLess(t.port[q])
    /\ r.inval = -1

\* nothing of the cached topology of t was invalidated on the way to r: no
\* port freed, no endpoint cache cleared, no initialized flag reset, no flush
\* written (discovery may have added to it)
NothingInvalidated(r, t) ==
    /\ r.inval = -1
    /\ r.ctx.flushes = t.ctx.flushes
    /\ t.ctx.memdevs_init => r.ctx.memdevs_init
    /\ t.ctx.buses_init => r.ctx.buses_init
    /\ \A m \in MemIds :
          t.memdev[m].endpoint # NullPtr => r.memdev[m].endpoint = t.memdev[m].endpoint
    /\ \A q \in PortIds :
          t.port[q].live =>
              /\ r.port[q].live
              /\ r.port[q].gen = t.port[q].gen
              /\ t.port[q].ports_init => r.port[q].ports_init
              /\ t.port[q].endpoints_init => r.port[q].endpoints_init
              /\ t.port[q].decoders_init => r.port[q].decoders_init
              /\ t.port[q].dports_init => r.port[q].dports_init

\* what a disable that returned did: at most one unbind; bus_invalidate()
\* only after the one unbind and with the node disabled (enabled says whether
\* it still has its driver)
DisableOrder(r, enabled) ==
    /\ Len(Unbinds(r.io)) <= 1
    /\ r.inval # -1 => (r.io = << "unbind" >> /\ ~enabled /\ r.rc = 0)
    /\ (r.io = << "unbind" >> /\ enabled) => r.rc = -EBUSY

\* the driver link persisted
StillBound(r, enabled) == r.io = << "unbind" >> /\ enabled

DisableMemdevKept(r, m) ==
    ~r.crashed =>
        /\ DisableOrder(r, MemEnabled(r, m))
        /\ StillBound(r, MemEnabled(r, m)) => NothingInvalidated(r, TEnter)

DisablePortKept(r, p) ==
    ~r.crashed =>
        /\ DisableOrder(r, PortEnabled(r, p))
        /\ StillBound(r, PortEnabled(r, p)) => NothingInvalidated(r, TEnter)

DisableMemdevSame(r, m) ==
    ~r.crashed =>
        /\ DisableOrder(r, MemEnabled(r, m))
        /\ StillBound(r, MemEnabled(r, m)) => TopologyUnchanged(r, TEnter)

DisablePortSame(r, p) ==
    ~r.crashed =>
        /\ DisableOrder(r, PortEnabled(r, p))
        /\ StillBound(r, PortEnabled(r, p)) => TopologyUnchanged(r, TEnter)

\* the state a topology call has returned in, with what the call did
TAfter ==
    [ctx |-> ctx', memdev |-> memdev', port |-> port', ext |-> ext',
     inval |-> tcall'.inval, io |-> tcall'.io, rc |-> tcall'.rc,
     crashed |-> tcall'.outcome = "segv"]

DisableSameStep ==
    /\ tcall'.fn = "cxl_memdev_disable_invalidate" =>
          DisableMemdevSame(TAfter, tcall'.arg)
    /\ tcall'.fn = "cxl_port_disable_invalidate" =>
          DisablePortSame(TAfter, tcall'.arg)

DisableKeptStep ==
    /\ tcall'.fn = "cxl_memdev_disable_invalidate" =>
          DisableMemdevKept(TAfter, tcall'.arg)
    /\ tcall'.fn = "cxl_port_disable_invalidate" =>
          DisablePortKept(TAfter, tcall'.arg)

\* C21: disable_invalidate on a non-root node issues unbind at most once, and
\* bus_invalidate runs only after the node has been observed disabled
\* following that unbind; if the driver link persists it returns busy and
\* the cached topology (ports, endpoint caches, initialized flags) is
\* unchanged.
C21_DisableBusyUnchanged == [][DisableSameStep]_vars

\* C21 as the code has it: as above, but with the driver link persisting
\* nothing of the cached topology is invalidated, while the resolution of the
\* node's bus may have discovered more of it.
C21_DisableBusyKept == [][DisableKeptStep]_vars

\* a disable of a memdev whose endpoint was resolved has returned busy
C21_Witness ==
    /\ tcall.fn = "cxl_memdev_disable_invalidate"
    /\ tcall.rc = -EBUSY
    /\ tcall.io = << "unbind" >>
    /\ memdev[tcall.arg].endpoint # NullPtr
    /\ ext.mem[tcall.arg]

\* the call stopped before the unbind: nothing requested, nothing invalidated
NoUnbind(r) == r.io = << >> /\ r.inval = -1 /\ r.ctx.flushes = ctx.flushes

\* the node does not resolve to a bus in this state: a memory device that is
\* disabled or whose endpoint is not found or has no driver, a port without
\* driver
MemdevNoBus(m, dup, uaf) ==
    ~ext.mem[m] \/ cxl_memdev_get_bus(TEnter, m, dup, uaf).bus = -1

PortNoBus(p, uaf) == cxl_port_get_bus(TEnter, Ptr(TEnter, p), uaf).bus = -1

\* the call on a node without bus (nobus) failed
NoBusFails(r, nobus) ==
    (nobus /\ ~r.crashed) => (r.rc < 0 /\ NoUnbind(r))

\* the call on a node without bus (nobus): -ENXIO, but success (was_enabled
\* FALSE) for a memory device found disabled on entry
NoBusReturns(r, nobus, was_enabled) ==
    (nobus /\ ~r.crashed) =>
        /\ NoUnbind(r)
        /\ r.rc = IF was_enabled THEN -ENXIO ELSE 0

\* C22: disable_invalidate on a non-root node (port or memory device) that
\* does not currently resolve to a bus, which includes a node that is already
\* disabled, fails with an error and issues no unbind and no invalidation.
C22_NoBusDisableFails ==
    /\ \A m \in KnownMemdevs, ok \in BOOLEAN, dup \in BOOLEAN, uaf \in UafChoices :
          NoBusFails(cxl_memdev_disable_invalidate(TEnter, m, ok, dup, uaf),
                     MemdevNoBus(m, dup, uaf))
    /\ \A p \in KnownPorts \ BusIds, ok \in BOOLEAN, dup \in BOOLEAN, uaf \in UafChoices :
          NoBusFails(cxl_port_disable_invalidate(TEnter, p, ok, dup, uaf),
                     PortNoBus(p, uaf))

\* C22 as the code has it: a port, and a memory device that is enabled, fail
\* with -ENXIO when they do not resolve to a bus; a memory device that is
\* already disabled returns success; none issues an unbind or invalidates.
C22_NoBusDisableStops ==
    /\ \A m \in KnownMemdevs, ok \in BOOLEAN, dup \in BOOLEAN, uaf \in UafChoices :
          NoBusReturns(cxl_memdev_disable_invalidate(TEnter, m, ok, dup, uaf),
                       MemdevNoBus(m, dup, uaf), ext.mem[m])
    /\ \A p \in KnownPorts \ BusIds, ok \in BOOLEAN, dup \in BOOLEAN, uaf \in UafChoices :
          NoBusReturns(cxl_port_disable_invalidate(TEnter, p, ok, dup, uaf),
                       PortNoBus(p, uaf), TRUE)

\* a disable of a port that had lost its driver has failed with -ENXIO
C22_Witness ==
    /\ tcall.fn = "cxl_port_disable_invalidate"
    /\ tcall.arg \notin BusIds
    /\ ~ext.port[tcall.arg]
    /\ tcall.rc = -ENXIO
    /\ tcall.io = << >>

\* state t with endpoint e already linked to memory device d
LinkedTo(t, e, d) == [t EXCEPT !.port[e].memdev = d]

\* the call found endpoint e, and e is still linked to d
LinkKept(r, e, d) == r.ret = Ptr(r, e) => r.port[e].memdev = d

LiveBlocks == {i \in DOMAIN heap : heap[i].live}

\* the frees the last call made of block i
FreesOf(i) == {j \in DOMAIN call.log : call.log[j].ev = "free" /\ call.log[j].n = i}

\* the last call freed no block twice and none that was freed before
NoDoubleFree ==
    /\ \A i \in DOMAIN heap : Cardinality(FreesOf(i)) <= 1
    /\ \A j \in DOMAIN call.log : call.log[j].ev = "free" => call.log[j].rc = 0

\* the last call was the cxl_cmd_unref() that released the last reference
LastUnref == call.fn = "cxl_cmd_unref" /\ cmd.refcount = 0

\* C25: when the last command reference is released, every buffer the
\* library allocated for the command is freed exactly once: the query buffer,
\* the send descriptor and every auto-allocated input or output payload,
\* also one allocated before a later cxl_cmd_set_input_payload() or
\* cxl_cmd_set_output_payload() made the send descriptor name another buffer;
\* nothing is freed while a reference remains.
C25_BuffersFreedOnce ==
    /\ LastUnref => (LiveBlocks = {} /\ NoDoubleFree)
    /\ (call.fn = "cxl_cmd_unref" /\ cmd.refcount > 0) =>
          /\ LiveBlocks = DOMAIN heap
          /\ \A i \in DOMAIN heap : FreesOf(i) = {}

\* the opened node is not the character device with the memdev's major and
\* minor
BadNode == [DoOk EXCEPT !.node_ok = FALSE]

Ioctls(log) == SelectSeq(log, LAMBDA e : e.ev = "ioctl")

BadNodes(log) == SelectSeq(log, LAMBDA e : e.ev = "badnode")

\* do_cmd() entered in state s returned r: no-such-device, no ioctl issued,
\* and the command with its query and send buffers, the heap and the device
\* as they were
NodeRefused(r, s) ==
    /\ r.rc = -ENXIO
    /\ Ioctls(r.log) = << >>
    /\ BadNodes(r.log) # << >>
    /\ r.cmd = s.cmd
    /\ r.heap = s.heap
    /\ r.label = s.label
    /\ r.rx = s.rx

\* a cxl_cmd_submit() that got as far as the node returned r
SubmitRefused(r, s) ==
    BadNodes(r.log) # << >> =>
        /\ r.rc = -ENXIO
        /\ Ioctls(r.log) = << >>
        /\ r.cmd.query = s.cmd.query
        /\ r.cmd.send = s.cmd.send
        /\ r.cmd.inbuf = s.cmd.inbuf
        /\ r.cmd.outbuf = s.cmd.outbuf
        /\ r.heap = s.heap
        /\ r.label = s.label

\* C28: no query or send is ever issued on an opened node that is not a
\* character device with the memdev's recorded major and minor; the call then
\* fails with no-such-device and the command's query and send buffers are
\* unchanged.
C28_NodeValidated ==
    /\ cmd.refcount > 0 =>
          /\ \A ioc \in {"QUERY", "SEND"} :
                NodeRefused(do_cmd(Enter(cmd, heap), ioc, BadNode, dev.caps),
                            Enter(cmd, heap))
          /\ SubmitRefused(cxl_cmd_submit(Enter(cmd, heap), BadNode, dev.caps),
                           Enter(cmd, heap))
    /\ \A j \in DOMAIN call.log :
          call.log[j].ev = "badnode" =>
              /\ call.log[j].rc = -ENXIO
              /\ j < Len(call.log) => call.log[j + 1].ev # "ioctl"
              /\ call.rc < 0

\* a submit was refused at the node
C28_Witness ==
    /\ call.fn = "cxl_cmd_submit"
    /\ call.rc = -ENXIO
    /\ BadNodes(call.log) # << >>
    /\ Ioctls(call.log) = << >>
    /\ cmd.refcount > 0
    /\ cmd.query_status = "OK"

\* the ways the transport of a send fails: asprintf, open, the node, ioctl
TransportFailures ==
    {[DoOk EXCEPT !.oom = TRUE], [DoOk EXCEPT !.node_ok = FALSE]}
    \cup {[DoOk EXCEPT !.open_errno = e] : e \in TransportErrnos}
    \cup {[DoOk EXCEPT !.ioctl_errno = e] : e \in TransportErrnos}

\* the submit that returned r failed and left the command as it is in state
\* s: the cached device status, the query status, and what every output
\* accessor returns
SubmitLeftAlone(r, s) ==
    /\ r.rc < 0
    /\ cxl_cmd_get_mbox_status(r) = cxl_cmd_get_mbox_status(s)
    /\ r.cmd.query_status = s.cmd.query_status
    /\ \A fn \in AccessorFns : Accessor(fn, r) = Accessor(fn, s)

\* C31: a submit whose transport fails leaves the command in its pre-submit
\* state: the cached device status and the query status are unchanged, and
\* its output accessors behave exactly as they did before the failed submit.
C31_FailedSubmitLeftAlone ==
    (Returned /\ cmd.refcount > 0 /\ cmd.query_status = "OK") =>
        \A denv \in TransportFailures :
            SubmitLeftAlone(cxl_cmd_submit(Enter(cmd, heap), denv, dev.caps),
                            Enter(cmd, heap))

\* C35: in every reachable state, whatever traversals, endpoint
\* resolutions, enables and memdev or port disable-and-invalidate calls were
\* made and however the devices' enabled state changed in between, each
\* memdev's cached endpoint is empty or an endpoint that was not destroyed.
C35_CachedEndpointLive ==
    \A m \in MemIds :
        \/ memdev[m].endpoint = NullPtr
        \/ LivePtr([port |-> port], memdev[m].endpoint)

\* C36: the link between a memdev and its endpoint is symmetric in every
\* reachable state: for every memdev M and every live endpoint E, M's cached
\* endpoint is E exactly when E's cached memdev is M.
C36_LinkSymmetric ==
    \A m \in MemIds, e \in PortIds :
        port[e].live =>
            ((memdev[m].endpoint = Ptr([port |-> port], e)) <=> (port[e].memdev = m))

\* a memdev and a live endpoint are linked to each other after an
\* invalidation, while the other memdev's cache is left at a freed endpoint
C36_Witness ==
    /\ ctx.flushes > 0
    /\ \E m \in MemIds, e \in PortIds :
          /\ port[e].live
          /\ port[e].memdev = m
          /\ memdev[m].endpoint = Ptr([port |-> port], e)
    /\ \E d \in MemIds :
          /\ memdev[d].endpoint # NullPtr
          /\ ~LivePtr([port |-> port], memdev[d].endpoint)

\* the buses bus_invalidate() can be handed: the listed ones
InvalidatedBuses == {b \in BusIds : Has(ctx.buses, b) /\ port[b].live}

\* the state after the caller has walked the bus's own endpoints, decoders
\* and dports
OwnWalked(t, bus) ==
    cxl_dports_init(cxl_decoders_init(cxl_endpoints_init(t, bus, FALSE), bus, FALSE),
                    bus, FALSE)

\* the collections of a port and their initialized flags
Collections(pr) ==
    [live |-> pr.live, gen |-> pr.gen,
     ports_init |-> pr.ports_init, endpoints_init |-> pr.endpoints_init,
     decoders_init |-> pr.decoders_init, dports_init |-> pr.dports_init,
     child_ports |-> pr.child_ports, endpoints |-> pr.endpoints,
     decoders |-> pr.decoders, dports |-> pr.dports]

\* the context's memdev list and bus list are as they were
ListsKept(t, r) ==
    /\ r.ctx.memdevs = t.ctx.memdevs
    /\ r.ctx.buses = t.ctx.buses

\* every other bus, with the ports below it, is as it was
OtherBusesKept(t, r, bus) ==
    \A p \in PortIds :
        RootOf(p) # bus => Collections(r.port[p]) = Collections(t.port[p])

\* the bus's own decoders, dports and endpoints are as they were
OwnCollectionsKept(t, r, bus) ==
    /\ r.port[bus].decoders = t.port[bus].decoders
    /\ r.port[bus].dports = t.port[bus].dports
    /\ r.port[bus].endpoints = t.port[bus].endpoints
    /\ r.port[bus].decoders_init = t.port[bus].decoders_init
    /\ r.port[bus].dports_init = t.port[bus].dports_init
    /\ r.port[bus].endpoints_init = t.port[bus].endpoints_init

\* the memdevs resolved under another bus keep their cached endpoint
OtherCachesKept(t, r, bus) ==
    \A m \in MemIds :
        (t.memdev[m].endpoint # NullPtr /\ RootOf(t.memdev[m].endpoint.id) # bus) =>
            r.memdev[m].endpoint = t.memdev[m].endpoint

InvalidateFrame(t, r, bus) ==
    /\ ListsKept(t, r)
    /\ OtherBusesKept(t, r, bus)
    /\ OwnCollectionsKept(t, r, bus)
    /\ OtherCachesKept(t, r, bus)

\* C40: bus_invalidate(B) leaves unchanged the context's memdev list and bus
\* list, every other bus's subtree and initialized flags, B's own decoder,
\* dport and endpoint collections, and the cached endpoint of every memdev
\* resolved under a bus other than B.
C40_InvalidateFrame ==
    \A b \in InvalidatedBuses, dup \in BOOLEAN, uaf \in UafChoices :
        InvalidateFrame(OwnWalked(TEnter, b),
                        bus_invalidate(OwnWalked(TEnter, b), b, dup, uaf), b)

\* list a is the beginning of list b
StartsWith(b, a) ==
    /\ Len(a) <= Len(b)
    /\ SubSeq(b, 1, Len(a)) = a

\* the memdev list is as it was if it had been enumerated, and else holds
\* what the call's own enumeration listed; the bus list is as it was
ListsKeptOrEnumerated(t, r) ==
    /\ StartsWith(r.ctx.memdevs, t.ctx.memdevs)
    /\ t.ctx.memdevs_init => r.ctx.memdevs = t.ctx.memdevs
    /\ r.ctx.buses = t.ctx.buses

\* a port keeps what it listed and the flags it had set; a collection not
\* yet enumerated may have been enumerated
PortKeptOrEnumerated(a, b) ==
    /\ b.live /\ b.gen = a.gen
    /\ StartsWith(b.child_ports, a.child_ports)
    /\ StartsWith(b.endpoints, a.endpoints)
    /\ StartsWith(b.decoders, a.decoders)
    /\ StartsWith(b.dports, a.dports)
    /\ a.ports_init => (b.ports_init /\ b.child_ports = a.child_ports)
    /\ a.endpoints_init => (b.endpoints_init /\ b.endpoints = a.endpoints)
    /\ a.decoders_init => (b.decoders_init /\ b.decoders = a.decoders)
    /\ a.dports_init => (b.dports_init /\ b.dports = a.dports)

OtherBusesKeptOrEnumerated(t, r, bus) ==
    \A p \in PortIds :
        (RootOf(p) # bus /\ t.port[p].live) => PortKeptOrEnumerated(t.port[p], r.port[p])

InvalidateFrameOrEnumerated(t, r, bus) ==
    /\ ListsKeptOrEnumerated(t, r)
    /\ OtherBusesKeptOrEnumerated(t, r, bus)
    /\ OwnCollectionsKept(t, r, bus)
    /\ OtherCachesKept(t, r, bus)

\* C40, amended: bus_invalidate(B) removes nothing from the context's memdev
\* list and bus list, frees or empties no port of another bus, leaves B's own
\* decoder, dport and endpoint collections as they were and keeps the cached
\* endpoint of every memdev resolved under another bus; what it may add is
\* the enumeration of collections that were not enumerated before, the
\* memdev list among them.
C40_InvalidateFrameOrEnumerated ==
    \A b \in InvalidatedBuses, dup \in BOOLEAN, uaf \in UafChoices :
        InvalidateFrameOrEnumerated(OwnWalked(TEnter, b),
                                    bus_invalidate(OwnWalked(TEnter, b), b, dup, uaf), b)

\* bus_invalidate() of a bus whose ports were discovered while the memdevs
\* were not, next to another listed bus: it enumerates the memdevs and frees
\* the ports of the bus
C40_Witness ==
    /\ InvalidatedBuses = BusIds
    /\ ~ctx.memdevs_init
    /\ port[0].child_ports # << >>
    /\ OwnWalked(TEnter, 0).port[0].decoders # << >>
    /\ bus_invalidate(OwnWalked(TEnter, 0), 0, FALSE, "null").ctx.memdevs # << >>
    /\ bus_invalidate(OwnWalked(TEnter, 0), 0, FALSE, "null").port[0].child_ports = << >>
    /\ bus_invalidate(OwnWalked(TEnter, 0), 0, FALSE, "null").port[0].decoders # << >>

(***************************************************************************)
(* Properties of the label transfers, checked under SpecLsa.               *)
(***************************************************************************)
\* the frame of the cxl_memdev_write_label() of a zero buffer that
\* corresponds to frame l of a cxl_memdev_zero_label()
AsWrite(l) == [l EXCEPT !.op = "SET", !.hasbuf = TRUE, !.buf = Zeros(l.length)]

\* cur_len of the next iteration
CurLen == cur_len_of(label_iter_max(dev.payload_max), lsa.remaining)

\* the next __lsa_op() of the transfer in progress, as LSA_OP_ZERO and as
\* LSA_OP_SET of cur_len zero bytes
ZeroStep(env, cur_len) ==
    lsa_op_one(LsaEnter(cur_len), "ZERO", << >>, cur_len,
               WideAdd(lsa.offset, lsa.cur_off), env, dev.caps, dev.payload_max)

WriteStep(env, cur_len) ==
    lsa_op_one([LsaEnter(cur_len) EXCEPT !.ubuf = Zeros(cur_len)], "SET", Zeros(cur_len),
               cur_len, WideAdd(lsa.offset, lsa.cur_off), env, dev.caps, dev.payload_max)

\* the write command __lsa_op() builds for LSA_OP_ZERO
ZeroCmd(env, cur_len) ==
    cxl_cmd_new_write_label(Calloc(LsaEnter(cur_len), "zero", cur_len), Zeros(cur_len),
                            Trunc32(WideAdd(lsa.offset, lsa.cur_off)), cur_len,
                            env.build, dev.caps, dev.payload_max)

\* the data of a built write command is zero throughout
ZeroData(w) == w.rc = 0 => \A i \in 4..Len(w.cmd.inbuf) : w.cmd.inbuf[i] = 0

\* z and w sent the device the same, left the same label area and returned
\* the same, and the loop goes on the same
SameTransactions(z, w, cur_len) ==
    /\ z.rx = w.rx
    /\ z.label = w.label
    /\ z.rc = w.rc
    /\ AsWrite(lsa_op_next(lsa, cur_len, z)) = lsa_op_next(AsWrite(lsa), cur_len, w)

\* lsa_op() is entered the same
SameEntry(l) == AsWrite(lsa_op_enter(l)) = lsa_op_enter(AsWrite(l))

ZeroFrame(offset, length) ==
    [NoLsa EXCEPT !.op = "ZERO", !.offset = offset, !.length = length]

\* C26: cxl_memdev_zero_label(D, L, O) issues the same sequence of write
\* transactions as cxl_memdev_write_label() with a buffer of L zero bytes,
\* the data of every payload being zero; with L = 0 it returns success and
\* issues no transaction.
C26_ZeroIsWriteOfZeros ==
    /\ \A offset \in LsaOffsets, length \in LsaLengths :
          /\ SameEntry(ZeroFrame(offset, length))
          /\ length = 0 => lsa_op_enter(ZeroFrame(offset, length)) =
                               [ZeroFrame(offset, length) EXCEPT !.rc = 0]
    /\ (lsa.op = "ZERO" /\ lsa.pc = "loop") =>
          \A env \in LsaEnvs :
              ~env.zero_oom =>
                  /\ SameTransactions(ZeroStep(env, CurLen), WriteStep(env, CurLen), CurLen)
                  /\ ZeroData(ZeroCmd(env, CurLen))
    /\ (lsa.op = "ZERO" /\ lsa.length = 0) =>
          (lsa.pc = "idle" /\ lsa.rc = 0 /\ lsa.txs = << >> /\ rx = << >>)

\* a zero_label has completed in more than one transaction and the area it
\* named holds zeros
C26_Witness ==
    /\ lsa.op = "ZERO"
    /\ lsa.pc = "idle"
    /\ lsa.rc = 0
    /\ Len(lsa.txs) >= 2
    /\ Len(rx) >= 2
    /\ lsa.offset = Wide(0)
    /\ \A i \in 1..lsa.length : label[i] = 0

\* a read has returned an error from its k-th transaction
ReadFailedAt(k) ==
    /\ lsa.op = "GET"
    /\ lsa.pc = "idle"
    /\ lsa.rc # 0
    /\ k = Len(lsa.txs)
    /\ k > 0

\* the caller's buffer holds, over the range of transaction i, the bytes of
\* the label area that transaction named to the device
HoldsLabel(i) ==
    /\ lsa.txs[i].rc = 0
    /\ rx[i].id = "GET_LSA"
    /\ rx[i].len = lsa.txs[i].cur_len
    /\ \A j \in 1..lsa.txs[i].cur_len :
          lsa.buf[lsa.txs[i].cur_off + j] = label[rx[i].lo + j]

\* the bytes of the caller's buffer after the range of transaction k are as
\* the caller passed them
RestUntouched(k) ==
    \A j \in (lsa.txs[k].cur_off + lsa.txs[k].cur_len + 1)..lsa.length :
        lsa.buf[j] = LsaBuf("GET", lsa.length)[j]

\* C27: a label read of L bytes that fails at its k-th transaction returns
\* that error; the caller's buffer holds the device's label bytes over the
\* ranges of transactions 1..k-1, and its bytes beyond the range of the k-th
\* transaction are unchanged.
C27_FailedReadPrefix ==
    \A k \in 1..MaxTx :
        ReadFailedAt(k) =>
            /\ lsa.rc = lsa.txs[k].rc
            /\ \A i \in 1..(k - 1) : HoldsLabel(i)
            /\ RestUntouched(k)

\* a read failed at its second transaction, after the first brought label
\* bytes and with bytes left beyond the second
C27_Witness ==
    /\ ReadFailedAt(2)
    /\ lsa.buf[1] = label[rx[1].lo + 1]
    /\ lsa.buf[1] # LsaBuf("GET", lsa.length)[1]
    /\ lsa.txs[2].cur_off + lsa.txs[2].cur_len < lsa.length

\* the last __lsa_op() built its command on a device whose capability table
\* lacks the label command: the lookup found nothing
LabelCmdUnsupported ==
    /\ call.fn = "__lsa_op"
    /\ \E i \in DOMAIN call.log :
          call.log[i].ev = "search" /\ call.log[i].rc = -EOPNOTSUPP

\* C29: a label read, write or zero against a device whose capability table
\* lacks the label command reports the unsupported outcome: an error value
\* that is neither that of resource exhaustion nor one of a transport error.
C29_UnsupportedDistinct ==
    LabelCmdUnsupported =>
        /\ lsa.rc < 0
        /\ lsa.rc # -ENOMEM
        /\ -lsa.rc \notin TransportErrnos

\* C37: a label get, set or zero transfer terminates for every payload_max,
\* the values at or below the 8-byte header included, and every length:
\* each iteration of the loop transfers at least one byte or ends the loop
\* with an error.
C37_TransferProgress ==
    \A k \in DOMAIN lsa.txs :
        \/ lsa.txs[k].cur_len >= 1
        \/ /\ lsa.txs[k].rc # 0
           /\ k = Len(lsa.txs)
           /\ lsa.pc = "idle"

\* the size the payload bound check of a transaction's builder sees: the
\* header and the chunk for a write, the chunk for a read
BoundedSize(op, cur_len) ==
    IF op = "GET" THEN cur_len ELSE SET_LSA_HDR + cur_len

\* C38: with payload_max above 8, no transaction of a label transfer is
\* rejected by the payload bound check: the input size of every write (the
\* 8-byte header and the chunk) and the output size of every read are at
\* most payload_max, and every chunk is at least one byte long.
C38_TransactionsWithinBound ==
    dev.payload_max > SET_LSA_HDR =>
        \A k \in DOMAIN lsa.txs :
            /\ lsa.txs[k].cur_len >= 1
            /\ BoundedSize(lsa.op, lsa.txs[k].cur_len) <= dev.payload_max
            /\ BoundedSize(lsa.op, lsa.txs[k].cur_len) >= 0

\* a write of three bytes went out in chunks that fill the payload
C38_Witness ==
    /\ dev.payload_max = 9
    /\ lsa.op = "SET"
    /\ lsa.pc = "idle"
    /\ lsa.rc = 0
    /\ Len(lsa.txs) = 3
    /\ \A k \in DOMAIN lsa.txs : SET_LSA_HDR + lsa.txs[k].cur_len = dev.payload_max

(***************************************************************************)
(* Properties of the context's references, checked under SpecCtx.          *)
(***************************************************************************)
FreedOnce(log, e) == Cardinality({i \in DOMAIN log : log[i] = e}) = 1

\* the teardown that returned r freed every memdev and every port of this
\* state once, then the context's own resources, and left none behind
TeardownComplete(r) ==
    /\ \A m \in KnownMemdevs : FreedOnce(r.freed, Freed("memdev", m))
    /\ \A q \in KnownPorts : FreedOnce(r.freed, Freed("port", q))
    /\ Len(r.freed) = Cardinality(KnownMemdevs) + Cardinality(KnownPorts) + 2
    /\ r.freed[Len(r.freed) - 1] = Freed("kmod", 0)
    /\ r.freed[Len(r.freed)] = Freed("ctx", 0)
    /\ r.ctx.memdevs = << >>
    /\ r.ctx.buses = << >>
    /\ \A q \in PortIds : ~r.port[q].live
    /\ r.ctx.refcount = 0

\* the last reference is dropped by a teardown, any other by none
UnrefTearsDown(r, last) ==
    IF last THEN TeardownComplete(r) ELSE r.freed = << >> /\ r.ctx.refcount > 0

\* C24: a context created with one reference is torn down exactly when the
\* number of cxl_unref() calls reaches one plus the number of cxl_ref()
\* calls, never earlier; the teardown runs once and destroys every memdev and
\* every bus with its whole subtree before the context's own resources.
C24_ContextTornDownOnce ==
    /\ life.unrefs <= 1 + life.refs
    /\ life.released = IF life.unrefs = 1 + life.refs THEN 1 ELSE 0
    /\ ctx.refcount = 1 + life.refs - life.unrefs
    /\ FreedOnce(life.freed, Freed("ctx", 0)) <=> life.released = 1
    /\ ctx.refcount > 0 => UnrefTearsDown(cxl_unref(TEnter), ctx.refcount = 1)

\* the context was torn down after further references were taken and
\* dropped, with a memdev and an endpoint discovered
C24_Witness ==
    /\ life.released = 1
    /\ life.refs > 0
    /\ life.unrefs = 1 + life.refs
    /\ \E i \in DOMAIN life.freed : life.freed[i] = Freed("memdev", 0)
    /\ \E i \in DOMAIN life.freed : life.freed[i] = Freed("port", 2)

(***************************************************************************)
(* Properties of the maps_memdev predicates, checked under SpecMaps.       *)
(***************************************************************************)
\* needle occurs in haystack
Contains(haystack, needle) ==
    \E i \in 1..Len(haystack), j \in 0..Len(haystack) :
        i <= j + 1 /\ SubSeq(haystack, i, j) = needle

\* the path of the object that decides
DecidingPath == IF maps.phys_path # NullPath THEN maps.phys_path ELSE maps.dev_path

\* C30: cxl_dport_maps_memdev() and cxl_target_maps_memdev() return true
\* exactly when the memdev's resolved host path contains as a substring the
\* object's physical-node path if one was resolved, and otherwise the
\* object's plain device path; the plain device path is never consulted when
\* a physical-node path exists.
C30_MapsMemdev ==
    /\ maps.fn # "" => (maps.ret <=> Contains(maps.host_path, DecidingPath))
    /\ maps.phys_path # NullPath =>
          \A d \in Paths :
              /\ cxl_dport_maps_memdev(maps.host_path, d, maps.phys_path)
                     = cxl_dport_maps_memdev(maps.host_path, maps.dev_path, maps.phys_path)
              /\ cxl_target_maps_memdev(maps.host_path, d, maps.phys_path)
                     = cxl_target_maps_memdev(maps.host_path, maps.dev_path, maps.phys_path)

\* a dport whose device path occurs in the host path and whose physical-node
\* path does not was found not to map the memdev
C30_Witness ==
    /\ maps.fn = "cxl_dport_maps_memdev"
    /\ maps.phys_path # NullPath
    /\ Contains(maps.host_path, maps.dev_path)
    /\ ~Contains(maps.host_path, maps.phys_path)
    /\ ~maps.ret


(***************************************************************************)
(* Properties of a decoder's targets, checked under SpecDec.               *)
(***************************************************************************)
\* the iterations of the target loop whose calloc() or realpath() fails
FailingIterations ==
    {i \in 0..(Len(dec.ids) - 1) : dec.oom_at = i \/ dec.ids[i + 1] \notin dec.resolves}

\* the first of them, or the length of the list when none fails
FirstFailure ==
    IF FailingIterations = {} THEN Len(dec.ids)
    ELSE CHOOSE i \in FailingIterations : \A j \in FailingIterations : i <= j

Positions(d) == {d.targets[k].position : k \in DOMAIN d.targets}

\* the lookup returned the target at the position, or none when the
\* position is not one of 0..nr_targets-1
LookupRight(d, position, found) ==
    IF position \in 0..(d.nr_targets - 1)
    THEN found # NullTarget /\ d.targets[found].position = position
    ELSE found = NullTarget

\* C32: a constructed decoder's nr_targets is the number of targets in its
\* list and their positions are 0..nr_targets-1 without repeats; when the
\* j-th listed target (from 0) fails to resolve, exactly the j targets before
\* it are kept; cxl_decoder_get_target_by_position(p) returns the target at
\* position p for 0 <= p < nr_targets and none otherwise.
C32_TargetPositions ==
    dec.built =>
        /\ dec.decoder.nr_targets = Len(dec.decoder.targets)
        /\ Positions(dec.decoder) = 0..(dec.decoder.nr_targets - 1)
        /\ Cardinality(Positions(dec.decoder)) = Len(dec.decoder.targets)
        /\ dec.decoder.nr_targets = FirstFailure
        /\ dec.decoder.parse_failed <=> (FirstFailure < Len(dec.ids))
        /\ {<< dec.decoder.targets[k].id, dec.decoder.targets[k].position >> :
               k \in DOMAIN dec.decoder.targets}
             = {<< dec.ids[j + 1], j >> : j \in 0..(FirstFailure - 1)}
        /\ \A p \in -1..(MaxTargets + 1) :
              LookupRight(dec.decoder, p,
                          cxl_decoder_get_target_by_position(dec.decoder, p))
        /\ dec.fn = "cxl_decoder_get_target_by_position" =>
              LookupRight(dec.decoder, dec.pos, dec.found)

\* the third listed target failed to resolve, two were kept, and the lookup
\* of position 1 found one
C32_Witness ==
    /\ dec.fn = "cxl_decoder_get_target_by_position"
    /\ dec.decoder.parse_failed
    /\ dec.oom_at = -1
    /\ dec.decoder.nr_targets = 2
    /\ dec.pos = 1
    /\ dec.found # NullTarget

\* the ids of the targets in list order
TargetIds(d) == [k \in DOMAIN d.targets |-> d.targets[k].id]

\* a traversal that ran off the end of the list
TraversalDone ==
    /\ dec.fn = "cxl_target_get_next"
    /\ dec.cur = NullTarget

RequiredAttrs == {"pmem/size", "ram/size", "payload_max", "label_storage_size",
                  "firmware_version"}

\* nothing but the serial and numa_node attributes fails, the values read are
\* ones add_cxl_memdev() accepts, and the id is not listed yet
OnlyOptionalUnreadable ==
    /\ made.env.fails = ""
    /\ RequiredAttrs \subseteq made.env.readable
    /\ made.env.value["payload_max"] >= 0
    /\ made.env.value["label_storage_size"] # ULLONG_MAX
    /\ \A k \in DOMAIN made.before : made.before[k].id # made.id

\* the memdev was added to the list that was there
Added ==
    /\ made.ret # NullMemdev
    /\ made.ret.id = made.id
    /\ Len(made.memdevs) = Len(made.before) + 1
    /\ \E k \in DOMAIN made.memdevs : made.memdevs[k] = made.ret
    /\ \A k \in DOMAIN made.before :
          \E j \in DOMAIN made.memdevs : made.memdevs[j] = made.before[k]

\* C33: a memdev whose serial or numa_node attribute is unreadable is still
\* added, with serial the 64-bit maximum and numa_node -1; a memdev whose
\* pmem size, ram size, payload_max, label_storage_size or firmware_version
\* is unreadable is not added, and the list is left as it was.
C33_MemdevAttributes ==
    made.fn # "" =>
        /\ OnlyOptionalUnreadable =>
              /\ Added
              /\ "serial" \notin made.env.readable => made.ret.serial = ULLONG_MAX
              /\ "numa_node" \notin made.env.readable => made.ret.numa_node = -1
              /\ (made.fn = "cxl_memdev_get_serial"
                     /\ "serial" \notin made.env.readable) => made.got = ULLONG_MAX
              /\ (made.fn = "cxl_memdev_get_numa_node"
                     /\ "numa_node" \notin made.env.readable) => made.got = -1
        /\ ~(RequiredAttrs \subseteq made.env.readable) =>
              /\ made.ret = NullMemdev
              /\ made.memdevs = made.before

\* a memdev without a readable serial was added to a list that held another
\* one, and its serial was read back
C33_Witness ==
    /\ made.fn = "cxl_memdev_get_serial"
    /\ made.env.readable = RequiredAttrs
    /\ made.before # << >>
    /\ Len(made.memdevs) = 2
    /\ made.got = ULLONG_MAX

(***************************************************************************)
(* Properties of cxl_port_foreach_all(), checked under SpecWalkFair.       *)
(***************************************************************************)
\* p lies below a in the tree
RECURSIVE Below(_, _, _)
Below(w, p, a) ==
    /\ w.parent[p] # NoParent
    /\ \/ w.parent[p] = a
       \/ Below(w, w.parent[p], a)

Subtree(w, a) == {p \in DOMAIN w.parent : Below(w, p, a)}

\* the loop has ended
WalkDone ==
    /\ walk.fn # ""
    /\ walk.port = NoPortRef

\* so far the loop ran for ports of top's subtree only, for none twice, and
\* for each after its parent; when it has ended it ran for all of them
WalkRight ==
    /\ walk.port # PortCrash
    /\ \A k \in DOMAIN walk.seen : walk.seen[k] \in Subtree(walk, walk.top)
    /\ \A j, k \in DOMAIN walk.seen : j # k => walk.seen[j] # walk.seen[k]
    /\ \A k \in DOMAIN walk.seen :
          \/ walk.parent[walk.seen[k]] = walk.top
          \/ \E j \in 1..(k - 1) : walk.seen[j] = walk.parent[walk.seen[k]]
    /\ WalkDone =>
          {walk.seen[k] : k \in DOMAIN walk.seen} = Subtree(walk, walk.top)

\* C39: cxl_port_foreach_all(top, port) terminates and visits every port of
\* top's subtree, top excluded, exactly once, each parent before its
\* children and no port outside the subtree, for every tree shape and every
\* choice of top.
C39_ForeachAllPreorder == []WalkRight /\ <>WalkDone

\* the loop ended after three ports below a top that is not the root, one of
\* them below another, while a port outside the subtree was left out
C39_Witness ==
    /\ WalkDone
    /\ walk.top # 0
    /\ Len(walk.seen) = 3
    /\ \E k \in DOMAIN walk.seen : walk.parent[walk.seen[k]] # walk.top
    /\ Cardinality(DOMAIN walk.parent) = 5

=============================================================================
